---- MODULE Spec2Model ----
(***************************************************************************)
(* Model of src/src/strategies/hyperliquid_spot_perp_arbitrage.py:         *)
(* the SignalCalculator scoring functions, the TWAP helper and the         *)
(* SpotPerpArbitrageBot position state machine (run_cycle).                *)
(*                                                                         *)
(* Conventions.                                                            *)
(*  - Python floats are modelled as exact rationals [n, d] with d > 0;     *)
(*    -math.inf is the value NegInf.  Percentages (scores, bases,          *)
(*    thresholds, funding rates, fees) are counted in hundredths of a      *)
(*    percent, so 0.2 % is 20.                                             *)
(*  - A Python "X | None" value is a sequence of length at most one:       *)
(*    <<>> is None and <<x>> is the value x.                               *)
(*  - One step of the model is one whole invocation of run_cycle.          *)
(***************************************************************************)
EXTENDS Integers, Sequences, FiniteSets, TLC

VARIABLES
    cfg,               \* the constructor arguments of SpotPerpArbitrageBot
    twap_patched,      \* TRUE when the module-level execute_twap_order is replaced by a stub
    current_state,     \* self.current_state
    current_position,  \* self.current_position (optional)
    entry_timestamp,   \* self.entry_timestamp (optional)
    clock,             \* the value time.time() last returned
    ncycles,           \* number of run_cycle invocations so far
    net_executed,      \* successful ENTRY executions minus successful exits so far
    last,              \* what the latest run_cycle invocation read, decided and executed
    twap,              \* one invocation of execute_twap_order, statement by statement
    sig                \* the latest call of a SignalCalculator method: arguments, result

vars == <<cfg, twap_patched, current_state, current_position, entry_timestamp,
          clock, ncycles, net_executed, last, twap, sig>>

(***************************************************************************)
(* Bounds of the model.                                                    *)
(***************************************************************************)
MaxCycles == 2
MaxIntervals == 3
MaxDuration == 2
MaxLevels == 2
MaxCandidates == 3

(***************************************************************************)
(* Optional values and numbers.                                            *)
(***************************************************************************)
None == <<>>
Some(x) == <<x>>
IsNone(o) == o = <<>>
Val(o) == o[1]

Rat(n, d) == [n |-> n, d |-> d]
FromInt(i) == Rat(i, 1)
NegInf == [n |-> -1, d |-> 0]
IsNegInf(x) == x.d = 0

\* x > y for Python floats, -math.inf included
RatGT(x, y) ==
    IF IsNegInf(x) THEN FALSE
    ELSE IF IsNegInf(y) THEN TRUE
    ELSE x.n * y.d > y.n * x.d

\* x < y
RatLT(x, y) == RatGT(y, x)

\* x + i for an integer i
RatPlus(x, i) == IF IsNegInf(x) THEN x ELSE Rat(x.n + i * x.d, x.d)

(***************************************************************************)
(* Market data: what SignalCalculator.mock_data_store holds for an asset.  *)
(***************************************************************************)
Book(price, vol) ==
    [bids |-> << <<price - 1, vol>> >>, asks |-> << <<price + 1, vol>> >>]

Snap(spot, perp, funding, vol) ==
    [spot_price |-> spot, perp_price |-> perp,
     next_funding_rate_hourly |-> funding,
     spot_order_book |-> Book(spot, vol),
     perp_order_book |-> Book(perp, vol)]

\* the snapshots the data store may hold in a cycle
StoreValues ==
    { Snap(1000, 1001, 20, 10),    \* score 10
      Snap(1000, 1001, 0, 10),     \* score -10
      Snap(1000, 1003, 20, 10),    \* score 30
      Snap(1000, 1001, 20, 4),     \* books too thin for the notional
      Snap(1000, 1011, 20, 10),    \* basis 10 wider than at 1001: the stop-loss threshold
      Snap(1000, 1012, 20, 10) }   \* basis 11 wider than at 1001

AllAssets == {"ETH", "BTC"}

\* the data stores: a dict from some of the assets to their snapshot
Stores == UNION { [S -> StoreValues] : S \in SUBSET AllAssets }

\* fetch_market_data
FetchMarketData(store, asset_symbol) ==
    IF asset_symbol \in DOMAIN store
    THEN Some([asset_symbol |-> asset_symbol,
               spot_price |-> store[asset_symbol].spot_price,
               perp_price |-> store[asset_symbol].perp_price,
               next_funding_rate_hourly |-> store[asset_symbol].next_funding_rate_hourly,
               spot_order_book |-> store[asset_symbol].spot_order_book,
               perp_order_book |-> store[asset_symbol].perp_order_book])
    ELSE None

(***************************************************************************)
(* SignalCalculator.                                                       *)
(***************************************************************************)
ROUND_TRIP_FEES_PERCENT == 20

\* slippage_tolerance = 0.005, in thousandths
SlippageTolerance == 5

RECURSIVE AskVol(_, _)
\* sum(vol for p, vol in asks if p <= price * (1 + slippage_tolerance))
AskVol(asks, price) ==
    IF asks = <<>> THEN 0
    ELSE (IF Head(asks)[1] * 1000 <= price * (1000 + SlippageTolerance)
          THEN Head(asks)[2] ELSE 0) + AskVol(Tail(asks), price)

RECURSIVE BidVol(_, _)
\* sum(vol for p, vol in bids if p >= price * (1 - slippage_tolerance))
BidVol(bids, price) ==
    IF bids = <<>> THEN 0
    ELSE (IF Head(bids)[1] * 1000 >= price * (1000 - SlippageTolerance)
          THEN Head(bids)[2] ELSE 0) + BidVol(Tail(bids), price)

\* order_book.get(key): a dict is a function on the keys it has, a missing key gives
\* None, which "not" treats as an empty list
Get(order_book, key) == IF key \in DOMAIN order_book THEN order_book[key] ELSE <<>>

\* variant of CheckLiquidity that requires the volume on the ask side only
CheckLiquidity_AsksOnly(order_book, trade_amount_usd, price) ==
    IF \/ DOMAIN order_book = {}
       \/ Get(order_book, "bids") = <<>>
       \/ Get(order_book, "asks") = <<>>
       \/ price = 0
    THEN FALSE
    ELSE AskVol(order_book.asks, price) * price >= trade_amount_usd

\* variant of CheckLiquidity that accepts a book without bids
CheckLiquidity_BidsOptional(order_book, trade_amount_usd, price) ==
    IF \/ DOMAIN order_book = {}
       \/ Get(order_book, "asks") = <<>>
       \/ price = 0
    THEN FALSE
    ELSE /\ AskVol(order_book.asks, price) * price >= trade_amount_usd
         /\ \/ Get(order_book, "bids") = <<>>
            \/ BidVol(Get(order_book, "bids"), price) * price >= trade_amount_usd

\* _check_liquidity; an empty dict or None is the function with no key; prices are
\* never negative, so vol >= usd / price is vol * price >= usd
CheckLiquidity(order_book, trade_amount_usd, price) ==
    IF \/ DOMAIN order_book = {}
       \/ Get(order_book, "bids") = <<>>
       \/ Get(order_book, "asks") = <<>>
       \/ price = 0
    THEN FALSE
    ELSE /\ AskVol(order_book.asks, price) * price >= trade_amount_usd
         /\ BidVol(order_book.bids, price) * price >= trade_amount_usd

\* variant of CalculateOpportunityScore that checks the spot book only
CalculateOpportunityScore_SpotOnly(market_data, trade_amount_usd) ==
    IF IsNone(market_data) THEN [score |-> None, basis |-> None]
    ELSE LET md == Val(market_data)
             spot_price == md.spot_price
             perp_price == md.perp_price
         IN IF ~CheckLiquidity(md.spot_order_book, trade_amount_usd, spot_price)
            THEN [score |-> None, basis |-> None]
            ELSE IF spot_price = 0
            THEN [score |-> Some(FromInt(0)), basis |-> Some(FromInt(0))]
            ELSE [score |-> Some(Rat((perp_price - spot_price) * 10000
                                      + (md.next_funding_rate_hourly
                                         - ROUND_TRIP_FEES_PERCENT) * spot_price,
                                     spot_price)),
                  basis |-> Some(Rat((perp_price - spot_price) * 10000, spot_price))]

\* variant of CalculateOpportunityScore that takes the basis relative to the perp price
CalculateOpportunityScore_BasisOverPerp(market_data, trade_amount_usd) ==
    IF IsNone(market_data) THEN [score |-> None, basis |-> None]
    ELSE LET md == Val(market_data)
             spot_price == md.spot_price
             perp_price == md.perp_price
         IN IF \/ ~CheckLiquidity(md.spot_order_book, trade_amount_usd, spot_price)
               \/ ~CheckLiquidity(md.perp_order_book, trade_amount_usd, perp_price)
            THEN [score |-> None, basis |-> None]
            ELSE IF spot_price = 0
            THEN [score |-> Some(FromInt(0)), basis |-> Some(FromInt(0))]
            ELSE [score |-> Some(Rat((perp_price - spot_price) * 10000
                                      + (md.next_funding_rate_hourly
                                         - ROUND_TRIP_FEES_PERCENT) * perp_price,
                                     perp_price)),
                  basis |-> Some(Rat((perp_price - spot_price) * 10000, perp_price))]

\* calculate_opportunity_score: [score, basis], both optional
CalculateOpportunityScore(market_data, trade_amount_usd) ==
    IF IsNone(market_data) THEN [score |-> None, basis |-> None]
    ELSE LET md == Val(market_data)
             spot_price == md.spot_price
             perp_price == md.perp_price
         IN IF \/ ~CheckLiquidity(md.spot_order_book, trade_amount_usd, spot_price)
               \/ ~CheckLiquidity(md.perp_order_book, trade_amount_usd, perp_price)
            THEN [score |-> None, basis |-> None]
            ELSE IF spot_price = 0
            THEN [score |-> Some(FromInt(0)), basis |-> Some(FromInt(0))]
            ELSE [score |-> Some(Rat((perp_price - spot_price) * 10000
                                      + (md.next_funding_rate_hourly
                                         - ROUND_TRIP_FEES_PERCENT) * spot_price,
                                     spot_price)),
                  basis |-> Some(Rat((perp_price - spot_price) * 10000, spot_price))]

\* variant of NoOpportunity with a score of zero
NoOpportunity_ZeroScore ==
    [asset |-> None, score |-> FromInt(0), market_data |-> None, basis |-> None]

\* the best so far before the loop of find_best_opportunity
NoOpportunity ==
    [asset |-> None, score |-> NegInf, market_data |-> None, basis |-> None]

RECURSIVE FindBestFrom_NoExclusion(_, _, _, _, _)
\* variant of FindBestFrom that does not skip current_asset_symbol
FindBestFrom_NoExclusion(assets, store, trade_amount_usd, current_asset_symbol, best) ==
    IF assets = <<>> THEN best
    ELSE LET asset == Head(assets)
             md == FetchMarketData(store, asset)
             sc == CalculateOpportunityScore(md, trade_amount_usd)
             next ==
               IF IsNone(md) THEN best
               ELSE IF ~IsNone(sc.score) /\ RatGT(Val(sc.score), best.score)
               THEN [asset |-> Some(asset), score |-> Val(sc.score),
                     market_data |-> md, basis |-> sc.basis]
               ELSE best
         IN FindBestFrom_NoExclusion(Tail(assets), store, trade_amount_usd, current_asset_symbol, next)

RECURSIVE FindBestFrom_LastWins(_, _, _, _, _)
\* variant of FindBestFrom in which a later asset of equal score replaces the best
FindBestFrom_LastWins(assets, store, trade_amount_usd, current_asset_symbol, best) ==
    IF assets = <<>> THEN best
    ELSE LET asset == Head(assets)
             md == FetchMarketData(store, asset)
             sc == CalculateOpportunityScore(md, trade_amount_usd)
             next ==
               IF Some(asset) = current_asset_symbol THEN best
               ELSE IF IsNone(md) THEN best
               ELSE IF ~IsNone(sc.score) /\ ~RatGT(best.score, Val(sc.score))
               THEN [asset |-> Some(asset), score |-> Val(sc.score),
                     market_data |-> md, basis |-> sc.basis]
               ELSE best
         IN FindBestFrom_LastWins(Tail(assets), store, trade_amount_usd, current_asset_symbol, next)

RECURSIVE FindBestFrom(_, _, _, _, _)
\* the loop of find_best_opportunity over the remaining assets, best being the best so far
FindBestFrom(assets, store, trade_amount_usd, current_asset_symbol, best) ==
    IF assets = <<>> THEN best
    ELSE LET asset == Head(assets)
             md == FetchMarketData(store, asset)
             sc == CalculateOpportunityScore(md, trade_amount_usd)
             next ==
               IF Some(asset) = current_asset_symbol THEN best
               ELSE IF IsNone(md) THEN best
               ELSE IF ~IsNone(sc.score) /\ RatGT(Val(sc.score), best.score)
               THEN [asset |-> Some(asset), score |-> Val(sc.score),
                     market_data |-> md, basis |-> sc.basis]
               ELSE best
         IN FindBestFrom(Tail(assets), store, trade_amount_usd, current_asset_symbol, next)

\* variant of FindBestOpportunity that excludes no asset
FindBestOpportunity_IgnoresExclusion(assets, store, trade_amount_usd, current_asset_symbol) ==
    FindBestFrom(assets, store, trade_amount_usd, None, NoOpportunity)

\* find_best_opportunity
FindBestOpportunity(assets, store, trade_amount_usd, current_asset_symbol) ==
    FindBestFrom(assets, store, trade_amount_usd, current_asset_symbol, NoOpportunity)

(***************************************************************************)
(* The TWAP helper.                                                        *)
(***************************************************************************)
\* variant of ValidTwapParams that validates the number of intervals only
ValidTwapParams_IntervalsOnly(duration_minutes, num_intervals) == num_intervals > 0

\* the parameter validation of execute_twap_order
ValidTwapParams(duration_minutes, num_intervals) ==
    ~(num_intervals <= 0 \/ duration_minutes <= 0)

\* variant of KnownOrderType for which every order type selects legs
KnownOrderType_Any(order_type) == TRUE

\* the order types for which an interval has legs
KnownOrderType(order_type) == order_type \in {"ENTRY", "EXIT"}

\* variant of SleepsAfter that pauses after every interval
SleepsAfter_Every(i, num_intervals) == TRUE

\* whether interval i (from 0) is followed by a pause
SleepsAfter(i, num_intervals) == i < num_intervals - 1

RECURSIVE TwapLoop(_, _, _, _, _)
\* the loop of execute_twap_order from interval i on; acc counts the slices whose
\* two legs were handled and the seconds slept between slices
TwapLoop(i, order_type, num_intervals, interval_delay_seconds, acc) ==
    IF i >= num_intervals THEN [acc EXCEPT !.ok = TRUE]
    ELSE IF ~KnownOrderType(order_type) THEN [acc EXCEPT !.ok = FALSE]
    ELSE TwapLoop(i + 1, order_type, num_intervals, interval_delay_seconds,
                  [acc EXCEPT !.slices = @ + 1,
                              !.slept = @ + (IF SleepsAfter(i, num_intervals)
                                             THEN interval_delay_seconds ELSE 0)])

\* execute_twap_order (the seconds of a pause are whole for the configurations used)
ExecuteTwapOrder(order_type, total_amount_usd, duration_minutes, num_intervals) ==
    IF ~ValidTwapParams(duration_minutes, num_intervals)
    THEN [ok |-> FALSE, slices |-> 0, slept |-> 0]
    ELSE TwapLoop(0, order_type, num_intervals,
                  (duration_minutes * 60) \div num_intervals,
                  [ok |-> FALSE, slices |-> 0, slept |-> 0])

\* no SignalCalculator method called
SigIdle ==
    [op |-> "idle", order_book |-> <<>>, price |-> 0, market_data |-> None,
     assets |-> <<>>, store |-> <<>>, current_asset_symbol |-> None,
     trade_amount_usd |-> 0, result |-> <<>>]

\* no invocation of execute_twap_order under way
TwapIdle ==
    [pc |-> "idle", api_client |-> "none", asset_symbol |-> "", order_type |-> "",
     total_amount_usd |-> 0, duration_minutes |-> 0, num_intervals |-> 0,
     interval_delay_seconds |-> None, amount_per_interval_usd |-> None,
     i |-> 0, log |-> <<>>, placed |-> <<>>, result |-> None]

(***************************************************************************)
(* SpotPerpArbitrageBot.                                                   *)
(*                                                                         *)
(* The methods are operators on a record b of the bot's mutable fields     *)
(* (current_state, current_position, entry_timestamp), the clock and the   *)
(* orders executed so far in the cycle.  c is the configuration; stub is   *)
(* the result a replaced execute_twap_order returns.                       *)
(***************************************************************************)
TestConfig ==
    [assets_to_monitor |-> <<"ETH", "BTC">>, trade_amount_usd |-> 5000,
     entry_threshold |-> 5, rotation_threshold |-> 2,
     position_decay_threshold |-> 1, min_holding_period_seconds |-> 60,
     twap_duration_minutes |-> 1, twap_num_intervals |-> 2,
     stop_loss_basis_threshold_percentage |-> 100]

\* an entry threshold and a decay threshold equal to the lowest score and a rotation
\* threshold below every difference of scores
LowThresholdConfig ==
    [TestConfig EXCEPT !.entry_threshold = -10, !.rotation_threshold = -1000,
                       !.position_decay_threshold = -10]

\* a non-positive number of TWAP intervals
InvalidTwapConfig == [TestConfig EXCEPT !.twap_num_intervals = 0]

\* a non-positive TWAP duration
InvalidDurationConfig == [TestConfig EXCEPT !.twap_duration_minutes = 0]

\* the constructions checked: a configuration, and whether execute_twap_order is replaced
Setups ==
    { <<TestConfig, FALSE>>, <<TestConfig, TRUE>>, <<LowThresholdConfig, FALSE>>,
      <<InvalidTwapConfig, FALSE>>, <<InvalidDurationConfig, FALSE>> }

\* the call of the module-level name execute_twap_order made by the bot
TwapCall(c, patched, stub, order_type) ==
    IF patched THEN [ok |-> stub, slices |-> 0, slept |-> 0]
    ELSE ExecuteTwapOrder(order_type, c.trade_amount_usd,
                          c.twap_duration_minutes, c.twap_num_intervals)

TwapOrder(c, order_type, asset_symbol, ok) ==
    [kind |-> "TWAP", order_type |-> order_type, asset |-> asset_symbol,
     amount_usd |-> c.trade_amount_usd, duration_minutes |-> c.twap_duration_minutes,
     num_intervals |-> c.twap_num_intervals, ok |-> ok]

ImmediateOrder(c, asset_symbol, ok) ==
    [kind |-> "IMMEDIATE", order_type |-> "EXIT", asset |-> asset_symbol,
     amount_usd |-> c.trade_amount_usd, duration_minutes |-> 0,
     num_intervals |-> 0, ok |-> ok]

\* variant of Reset that forgets to clear the position
Reset_KeepsPosition(b) ==
    [b EXCEPT !.current_state = "SEARCHING", !.entry_timestamp = None]

\* variant of Reset that keeps the entry timestamp
Reset_KeepsTimestamp(b) ==
    [b EXCEPT !.current_state = "SEARCHING", !.current_position = None]

\* variant of Reset that ends in a state without a branch in run_cycle
Reset_ToClosed(b) ==
    [b EXCEPT !.current_state = "CLOSED", !.current_position = None,
              !.entry_timestamp = None]

\* self.current_state = "SEARCHING"; self.current_position = None; self.entry_timestamp = None
Reset(b) ==
    [b EXCEPT !.current_state = "SEARCHING", !.current_position = None,
              !.entry_timestamp = None]

\* variant of ExecuteImmediateExitTrade that unwinds through a TWAP order
ExecuteImmediateExitTrade_ViaTwap(b, c, asset_symbol) ==
    [ret |-> TRUE,
     bot |-> [b EXCEPT !.orders = Append(@, TwapOrder(c, "EXIT", asset_symbol, TRUE))]]

\* _execute_immediate_exit_trade: simulated, always successful
ExecuteImmediateExitTrade(b, c, asset_symbol) ==
    [ret |-> TRUE,
     bot |-> [b EXCEPT !.orders = Append(@, ImmediateOrder(c, asset_symbol, TRUE))]]

\* variant of ExecuteEntryTrade that records the two entry prices swapped
ExecuteEntryTrade_SwappedPrices(b, c, patched, stub, asset_symbol, market_data_at_entry, entry_score, entry_basis_percentage) ==
    LET r == TwapCall(c, patched, stub, "ENTRY")
        b1 == [b EXCEPT !.clock = @ + r.slept,
                        !.orders = Append(@, TwapOrder(c, "ENTRY", asset_symbol, r.ok))]
    IN [ret |-> r.ok,
        bot |-> IF r.ok
                THEN [b1 EXCEPT
                        !.entry_timestamp = Some(b1.clock),
                        !.current_position =
                            Some([asset_symbol |-> asset_symbol,
                                  entry_spot_price |-> market_data_at_entry.perp_price,
                                  entry_perp_price |-> market_data_at_entry.spot_price,
                                  entry_basis_percentage |-> entry_basis_percentage,
                                  entry_score |-> entry_score,
                                  market_data_at_entry |-> market_data_at_entry,
                                  current_score_of_position |-> None])]
                ELSE b1]

\* _execute_entry_trade
ExecuteEntryTrade(b, c, patched, stub, asset_symbol, market_data_at_entry, entry_score, entry_basis_percentage) ==
    LET r == TwapCall(c, patched, stub, "ENTRY")
        b1 == [b EXCEPT !.clock = @ + r.slept,
                        !.orders = Append(@, TwapOrder(c, "ENTRY", asset_symbol, r.ok))]
    IN [ret |-> r.ok,
        bot |-> IF r.ok
                THEN [b1 EXCEPT
                        !.entry_timestamp = Some(b1.clock),
                        !.current_position =
                            Some([asset_symbol |-> asset_symbol,
                                  entry_spot_price |-> market_data_at_entry.spot_price,
                                  entry_perp_price |-> market_data_at_entry.perp_price,
                                  entry_basis_percentage |-> entry_basis_percentage,
                                  entry_score |-> entry_score,
                                  market_data_at_entry |-> market_data_at_entry,
                                  current_score_of_position |-> None])]
                ELSE b1]

\* _execute_exit_trade
ExecuteExitTrade(b, c, patched, stub, asset_symbol) ==
    LET r == TwapCall(c, patched, stub, "EXIT")
    IN [ret |-> r.ok,
        bot |-> [b EXCEPT !.clock = @ + r.slept,
                          !.orders = Append(@, TwapOrder(c, "EXIT", asset_symbol, r.ok))]]

\* variant of ExecuteRotationTrade that enters the new asset whatever the exit returned
ExecuteRotationTrade_IgnoresExit(b, c, patched, exit_stub, entry_stub, old_asset_symbol, new_asset_symbol, new_asset_market_data, new_asset_score, new_asset_basis) ==
    LET x == ExecuteExitTrade(b, c, patched, exit_stub, old_asset_symbol)
    IN ExecuteEntryTrade(x.bot, c, patched, entry_stub, new_asset_symbol,
                         new_asset_market_data, new_asset_score, new_asset_basis)

\* variant of ExecuteRotationTrade that enters the new asset before exiting the old one
ExecuteRotationTrade_EntryFirst(b, c, patched, exit_stub, entry_stub, old_asset_symbol, new_asset_symbol, new_asset_market_data, new_asset_score, new_asset_basis) ==
    LET e == ExecuteEntryTrade(b, c, patched, entry_stub, new_asset_symbol,
                               new_asset_market_data, new_asset_score, new_asset_basis)
    IN IF e.ret
       THEN ExecuteExitTrade(e.bot, c, patched, exit_stub, old_asset_symbol)
       ELSE [ret |-> FALSE, bot |-> e.bot]

\* variant of ExecuteRotationTrade that gives the position up when the exit failed
ExecuteRotationTrade_ResetsOnFailedExit(b, c, patched, exit_stub, entry_stub, old_asset_symbol, new_asset_symbol, new_asset_market_data, new_asset_score, new_asset_basis) ==
    LET x == ExecuteExitTrade(b, c, patched, exit_stub, old_asset_symbol)
    IN IF x.ret
       THEN ExecuteEntryTrade(x.bot, c, patched, entry_stub, new_asset_symbol,
                              new_asset_market_data, new_asset_score, new_asset_basis)
       ELSE [ret |-> FALSE, bot |-> Reset(x.bot)]

\* _execute_rotation_trade
ExecuteRotationTrade(b, c, patched, exit_stub, entry_stub, old_asset_symbol, new_asset_symbol, new_asset_market_data, new_asset_score, new_asset_basis) ==
    LET x == ExecuteExitTrade(b, c, patched, exit_stub, old_asset_symbol)
    IN IF x.ret
       THEN ExecuteEntryTrade(x.bot, c, patched, entry_stub, new_asset_symbol,
                              new_asset_market_data, new_asset_score, new_asset_basis)
       ELSE [ret |-> FALSE, bot |-> x.bot]

\* the stop-loss quantity of run_cycle: basis_change_percentage
BasisChangePercentage(position, fresh_md) ==
    LET entry_basis_value == position.entry_perp_price - position.entry_spot_price
        current_basis_value == fresh_md.perp_price - fresh_md.spot_price
        basis_change_usd == current_basis_value - entry_basis_value
    IN IF position.entry_spot_price # 0
       THEN Rat(basis_change_usd * 10000, position.entry_spot_price)
       ELSE FromInt(0)

\* variant of EntryCondition that also enters at a score equal to the threshold
EntryCondition_NotStrict(c, best) ==
    /\ ~IsNone(best.asset)
    /\ ~IsNone(best.market_data)
    /\ ~IsNone(best.basis)
    /\ ~RatGT(FromInt(c.entry_threshold), best.score)

\* the condition of the entry in the SEARCHING branch
EntryCondition(c, best) ==
    /\ ~IsNone(best.asset)
    /\ ~IsNone(best.market_data)
    /\ ~IsNone(best.basis)
    /\ RatGT(best.score, FromInt(c.entry_threshold))

\* the condition of the rotation in the POSITION_OPEN branch
RotationCondition(c, alt, current_score) ==
    /\ ~IsNone(alt.asset)
    /\ ~IsNone(alt.market_data)
    /\ ~IsNone(alt.basis)
    /\ RatGT(alt.score, RatPlus(current_score, c.rotation_threshold))

\* variant of StopLossCondition that also fires at a change equal to the threshold
StopLossCondition_NotStrict(c, position, fresh_md) ==
    ~RatLT(BasisChangePercentage(position, fresh_md),
           FromInt(c.stop_loss_basis_threshold_percentage))

\* the stop-loss condition
StopLossCondition(c, position, fresh_md) ==
    RatGT(BasisChangePercentage(position, fresh_md),
          FromInt(c.stop_loss_basis_threshold_percentage))

\* variant of InMinHoldingPeriod with the comparison inverted
InMinHoldingPeriod_Inverted(c, current_time, timestamp) ==
    current_time - timestamp > c.min_holding_period_seconds

\* the minimum holding period guard
InMinHoldingPeriod(c, current_time, timestamp) ==
    current_time - timestamp < c.min_holding_period_seconds

\* variant of DecayCondition with the comparison inverted
DecayCondition_Inverted(c, current_score) ==
    RatGT(current_score, FromInt(c.position_decay_threshold))

\* variant of DecayCondition that also exits at a score equal to the threshold
DecayCondition_NotStrict(c, current_score) ==
    ~RatGT(current_score, FromInt(c.position_decay_threshold))

\* the decay condition
DecayCondition(c, current_score) ==
    RatLT(current_score, FromInt(c.position_decay_threshold))

\* what a cycle reports besides the bot's fields: the rule applied, the snapshot fetched
\* for the held asset, the score recomputed for it and the results of the searches made
\* (each a sequence with one element per call)
Outcome(b, rule, fetched, scored, searches) ==
    [bot |-> b, rule |-> rule, fetched |-> fetched, scored |-> scored,
     searches |-> searches]

\* variant of RunCycleSearching that opens the position whatever the entry returned
RunCycleSearching_OpensRegardless(b, c, patched, store, entry_stub) ==
    LET best == FindBestOpportunity(c.assets_to_monitor, store, c.trade_amount_usd, None)
    IN IF EntryCondition(c, best)
       THEN LET e == ExecuteEntryTrade(b, c, patched, entry_stub, Val(best.asset),
                                       Val(best.market_data), best.score, Val(best.basis))
            IN Outcome([e.bot EXCEPT !.current_state = "POSITION_OPEN"],
                       "ENTRY", <<>>, <<>>, <<best>>)
       ELSE Outcome(b, "NO_ENTRY", <<>>, <<>>, <<best>>)

\* run_cycle, the SEARCHING branch
RunCycleSearching(b, c, patched, store, entry_stub) ==
    LET best == FindBestOpportunity(c.assets_to_monitor, store, c.trade_amount_usd, None)
    IN IF EntryCondition(c, best)
       THEN LET e == ExecuteEntryTrade(b, c, patched, entry_stub, Val(best.asset),
                                       Val(best.market_data), best.score, Val(best.basis))
            IN IF e.ret
               THEN Outcome([e.bot EXCEPT !.current_state = "POSITION_OPEN"],
                            "ENTRY", <<>>, <<>>, <<best>>)
               ELSE Outcome(e.bot, "ENTRY", <<>>, <<>>, <<best>>)
       ELSE Outcome(b, "NO_ENTRY", <<>>, <<>>, <<best>>)

\* variant of PositionOpenRule that checks the holding period before the stop-loss
PositionOpenRule_HoldingFirst(b, c, store) ==
    IF \/ IsNone(b.current_position)
       \/ IsNone(b.entry_timestamp)
       \/ Val(b.entry_timestamp) = 0
    THEN "INCONSISTENT"
    ELSE
    LET position == Val(b.current_position)
        fresh_md_current_pos == FetchMarketData(store, position.asset_symbol)
    IN
    IF IsNone(fresh_md_current_pos) THEN "DATA_UNAVAILABLE"
    ELSE IF InMinHoldingPeriod(c, b.clock, Val(b.entry_timestamp)) THEN "MIN_HOLDING"
    ELSE IF StopLossCondition(c, position, Val(fresh_md_current_pos)) THEN "STOP_LOSS"
    ELSE
    LET sc == CalculateOpportunityScore(fresh_md_current_pos, c.trade_amount_usd)
    IN
    IF IsNone(sc.score) THEN "LIQUIDITY"
    ELSE IF RotationCondition(c, FindBestOpportunity(c.assets_to_monitor, store,
                                                     c.trade_amount_usd,
                                                     Some(position.asset_symbol)),
                              Val(sc.score))
    THEN "ROTATION"
    ELSE IF DecayCondition(c, Val(sc.score)) THEN "DECAY"
    ELSE "HOLD"

\* variant of PositionOpenRule that checks the decay before the rotation
PositionOpenRule_DecayFirst(b, c, store) ==
    IF \/ IsNone(b.current_position)
       \/ IsNone(b.entry_timestamp)
       \/ Val(b.entry_timestamp) = 0
    THEN "INCONSISTENT"
    ELSE
    LET position == Val(b.current_position)
        fresh_md_current_pos == FetchMarketData(store, position.asset_symbol)
    IN
    IF IsNone(fresh_md_current_pos) THEN "DATA_UNAVAILABLE"
    ELSE IF StopLossCondition(c, position, Val(fresh_md_current_pos)) THEN "STOP_LOSS"
    ELSE IF InMinHoldingPeriod(c, b.clock, Val(b.entry_timestamp)) THEN "MIN_HOLDING"
    ELSE
    LET sc == CalculateOpportunityScore(fresh_md_current_pos, c.trade_amount_usd)
    IN
    IF IsNone(sc.score) THEN "LIQUIDITY"
    ELSE IF DecayCondition(c, Val(sc.score)) THEN "DECAY"
    ELSE IF RotationCondition(c, FindBestOpportunity(c.assets_to_monitor, store,
                                                     c.trade_amount_usd,
                                                     Some(position.asset_symbol)),
                              Val(sc.score))
    THEN "ROTATION"
    ELSE "HOLD"

\* variant of PositionOpenRule that checks the liquidity before the holding period
PositionOpenRule_LiquidityBeforeHolding(b, c, store) ==
    IF \/ IsNone(b.current_position)
       \/ IsNone(b.entry_timestamp)
       \/ Val(b.entry_timestamp) = 0
    THEN "INCONSISTENT"
    ELSE
    LET position == Val(b.current_position)
        fresh_md_current_pos == FetchMarketData(store, position.asset_symbol)
    IN
    IF IsNone(fresh_md_current_pos) THEN "DATA_UNAVAILABLE"
    ELSE IF StopLossCondition(c, position, Val(fresh_md_current_pos)) THEN "STOP_LOSS"
    ELSE
    LET sc == CalculateOpportunityScore(fresh_md_current_pos, c.trade_amount_usd)
    IN
    IF IsNone(sc.score) THEN "LIQUIDITY"
    ELSE IF InMinHoldingPeriod(c, b.clock, Val(b.entry_timestamp)) THEN "MIN_HOLDING"
    ELSE IF RotationCondition(c, FindBestOpportunity(c.assets_to_monitor, store,
                                                     c.trade_amount_usd,
                                                     Some(position.asset_symbol)),
                              Val(sc.score))
    THEN "ROTATION"
    ELSE IF DecayCondition(c, Val(sc.score)) THEN "DECAY"
    ELSE "HOLD"

\* run_cycle, the POSITION_OPEN branch: the rule that applies, the first one in the order
\* of the code whose condition holds
PositionOpenRule(b, c, store) ==
    IF \/ IsNone(b.current_position)
       \/ IsNone(b.entry_timestamp)
       \/ Val(b.entry_timestamp) = 0
    THEN "INCONSISTENT"
    ELSE
    LET position == Val(b.current_position)
        fresh_md_current_pos == FetchMarketData(store, position.asset_symbol)
    IN
    IF IsNone(fresh_md_current_pos) THEN "DATA_UNAVAILABLE"
    ELSE IF StopLossCondition(c, position, Val(fresh_md_current_pos)) THEN "STOP_LOSS"
    ELSE IF InMinHoldingPeriod(c, b.clock, Val(b.entry_timestamp)) THEN "MIN_HOLDING"
    ELSE
    LET sc == CalculateOpportunityScore(fresh_md_current_pos, c.trade_amount_usd)
    IN
    IF IsNone(sc.score) THEN "LIQUIDITY"
    ELSE IF RotationCondition(c, FindBestOpportunity(c.assets_to_monitor, store,
                                                     c.trade_amount_usd,
                                                     Some(position.asset_symbol)),
                              Val(sc.score))
    THEN "ROTATION"
    ELSE IF DecayCondition(c, Val(sc.score)) THEN "DECAY"
    ELSE "HOLD"

\* variant of ObserveScore that also overwrites the score recorded at entry
ObserveScore_OverwritesEntryScore(position, current_score) ==
    [position EXCEPT !.current_score_of_position = Some(current_score),
                     !.entry_score = current_score]

\* self.current_position["current_score_of_position"] = current_score
ObserveScore(position, current_score) ==
    [position EXCEPT !.current_score_of_position = Some(current_score)]

\* variant of ExitOutcome that keeps the position after a successful exit
ExitOutcome_KeepsPosition(x) == x.bot

\* variant of ExitOutcome that gives the position up whatever the exit returned
ExitOutcome_AlwaysResets(x) == Reset(x.bot)

\* "if <exit trade>: self._reset_state_to_searching()": the bot after an exit trade
ExitOutcome(x) == IF x.ret THEN Reset(x.bot) ELSE x.bot

\* run_cycle, the POSITION_OPEN branch: what the code does under the rule that applies
ApplyPositionOpenRule(rule, b, c, patched, store, exit_stub, entry_stub) ==
    IF rule = "INCONSISTENT"
    THEN Outcome(Reset(b), rule, <<>>, <<>>, <<>>)
    ELSE
    LET position == Val(b.current_position)
        pos_asset == position.asset_symbol
        fresh_md_current_pos == FetchMarketData(store, pos_asset)
    IN
    IF rule \in {"DATA_UNAVAILABLE", "STOP_LOSS"}
    THEN LET x == ExecuteImmediateExitTrade(b, c, pos_asset)
         IN Outcome(ExitOutcome(x), rule,
                    <<fresh_md_current_pos>>, <<>>, <<>>)
    ELSE IF rule = "MIN_HOLDING"
    THEN Outcome(b, rule, <<fresh_md_current_pos>>, <<>>, <<>>)
    ELSE
    LET sc == CalculateOpportunityScore(fresh_md_current_pos, c.trade_amount_usd)
    IN
    IF rule = "LIQUIDITY"
    THEN LET x == ExecuteExitTrade(b, c, patched, exit_stub, pos_asset)
         IN Outcome(ExitOutcome(x), rule,
                    <<fresh_md_current_pos>>, <<sc.score>>, <<>>)
    ELSE
    LET current_score == Val(sc.score)
        b1 == [b EXCEPT !.current_position = Some(ObserveScore(position, current_score))]
        alt == FindBestOpportunity(c.assets_to_monitor, store, c.trade_amount_usd,
                                   Some(pos_asset))
    IN
    IF rule = "ROTATION"
    THEN Outcome(ExecuteRotationTrade(b1, c, patched, exit_stub, entry_stub, pos_asset,
                                      Val(alt.asset), Val(alt.market_data), alt.score,
                                      Val(alt.basis)).bot,
                 rule, <<fresh_md_current_pos>>, <<sc.score>>, <<alt>>)
    ELSE IF rule = "DECAY"
    THEN LET x == ExecuteExitTrade(b1, c, patched, exit_stub, pos_asset)
         IN Outcome(ExitOutcome(x), rule,
                    <<fresh_md_current_pos>>, <<sc.score>>, <<alt>>)
    ELSE Outcome(b1, rule, <<fresh_md_current_pos>>, <<sc.score>>, <<alt>>)

\* run_cycle, the POSITION_OPEN branch
RunCyclePositionOpen(b, c, patched, store, exit_stub, entry_stub) ==
    ApplyPositionOpenRule(PositionOpenRule(b, c, store), b, c, patched, store,
                          exit_stub, entry_stub)

\* run_cycle
RunCycleResult(b, c, patched, store, exit_stub, entry_stub) ==
    IF b.current_state = "SEARCHING"
    THEN RunCycleSearching(b, c, patched, store, entry_stub)
    ELSE IF b.current_state = "POSITION_OPEN"
    THEN RunCyclePositionOpen(b, c, patched, store, exit_stub, entry_stub)
    ELSE Outcome(b, "NONE", <<>>, <<>>, <<>>)

(***************************************************************************)
(* The state machine.                                                      *)
(***************************************************************************)
\* seconds that may pass between two invocations of run_cycle
Delays == {30, 60}

RECURSIVE NetOf(_)
\* successful ENTRY executions minus successful exits among the orders of a cycle
NetOf(orders) ==
    IF orders = <<>> THEN 0
    ELSE (IF ~Head(orders).ok THEN 0
          ELSE IF Head(orders).order_type = "ENTRY" THEN 1 ELSE -1) + NetOf(Tail(orders))

NoCycle ==
    [pre_state |-> "SEARCHING", pre_position |-> None, pre_timestamp |-> None,
     current_time |-> 0, rule |-> "NONE", fetched |-> <<>>, scored |-> <<>>,
     searches |-> <<>>, orders |-> <<>>, raised |-> FALSE]

\* __init__; time.time() counts seconds since 1970 and is positive
Init ==
    /\ \E setup \in Setups : cfg = setup[1] /\ twap_patched = setup[2]
    /\ current_state = "SEARCHING"
    /\ current_position = None
    /\ entry_timestamp = None
    /\ clock = 1
    /\ ncycles = 0
    /\ net_executed = 0
    /\ last = NoCycle
    /\ twap = TwapIdle
    /\ sig = SigIdle

\* one invocation of run_cycle, delay seconds after the previous one returned, with the
\* data store holding store and a replaced execute_twap_order answering exit_stub
\* to an EXIT and entry_stub to an ENTRY
RunCycle(delay, store, exit_stub, entry_stub) ==
    /\ ncycles < MaxCycles
    /\ twap_patched \/ (exit_stub /\ entry_stub)
    /\ \E r \in { RunCycleResult([current_state |-> current_state,
                                  current_position |-> current_position,
                                  entry_timestamp |-> entry_timestamp,
                                  clock |-> clock + delay, orders |-> <<>>],
                                 cfg, twap_patched, store, exit_stub, entry_stub) } :
          /\ current_state' = r.bot.current_state
          /\ current_position' = r.bot.current_position
          /\ entry_timestamp' = r.bot.entry_timestamp
          /\ clock' = r.bot.clock
          /\ net_executed' = net_executed + NetOf(r.bot.orders)
          /\ last' = [pre_state |-> current_state, pre_position |-> current_position,
                      pre_timestamp |-> entry_timestamp, current_time |-> clock + delay,
                      rule |-> r.rule, fetched |-> r.fetched, scored |-> r.scored,
                      searches |-> r.searches, orders |-> r.bot.orders,
                      raised |-> FALSE]
    /\ ncycles' = ncycles + 1
    /\ UNCHANGED <<cfg, twap_patched, twap, sig>>

Next ==
    \E delay \in Delays, store \in Stores, exit_stub \in BOOLEAN, entry_stub \in BOOLEAN :
        RunCycle(delay, store, exit_stub, entry_stub)

Spec == Init /\ [][Next]_vars

(***************************************************************************)
(* run_cycle on a bot whose fields were assigned from outside, as the unit *)
(* tests assign current_state, current_position and entry_timestamp before *)
(* they call run_cycle.                                                    *)
(***************************************************************************)
\* the position the fixtures hold: ETH entered at spot 1000 and perp 1001
FixturePosition ==
    LET md == Val(FetchMarketData([a \in {"ETH"} |-> Snap(1000, 1001, 20, 10)], "ETH"))
        sc == CalculateOpportunityScore(Some(md), TestConfig.trade_amount_usd)
    IN [asset_symbol |-> "ETH",
        entry_spot_price |-> md.spot_price,
        entry_perp_price |-> md.perp_price,
        entry_basis_percentage |-> Val(sc.basis),
        entry_score |-> Val(sc.score),
        market_data_at_entry |-> md,
        current_score_of_position |-> None]

\* the assignments to <<current_position, entry_timestamp>> next to
\* current_state = "POSITION_OPEN": an open position, and the fields falsy in turn
Fixtures ==
    { <<Some(FixturePosition), Some(1)>>,
      <<None, None>>,
      <<Some(FixturePosition), None>>,
      <<None, Some(1)>>,
      <<Some(FixturePosition), Some(0)>> }

InitFixture ==
    /\ cfg = TestConfig
    /\ twap_patched \in BOOLEAN
    /\ current_state = "POSITION_OPEN"
    /\ \E f \in Fixtures : current_position = f[1] /\ entry_timestamp = f[2]
    /\ clock = 1
    /\ ncycles = 0
    /\ net_executed = 0
    /\ last = NoCycle
    /\ twap = TwapIdle
    /\ sig = SigIdle

SpecFixture == InitFixture /\ [][Next]_vars

(***************************************************************************)
(* run_cycle with a collaborator that raises.                              *)
(*                                                                         *)
(* run_cycle, find_best_opportunity and the _execute_* methods contain no  *)
(* try statement, so an exception raised by fetch_market_data or by a      *)
(* replaced execute_twap_order leaves run_cycle at the call, with the      *)
(* fields as they were assigned up to that call.                           *)
(***************************************************************************)
\* the calls that may raise
RaiseSites == {"fetch_market_data", "execute_twap_order"}

\* the cycle makes a call of fetch_market_data: the SEARCHING branch for its first
\* asset, the POSITION_OPEN branch for the held asset
CallsFetch(b, c) ==
    \/ b.current_state = "SEARCHING" /\ c.assets_to_monitor # <<>>
    \/ /\ b.current_state = "POSITION_OPEN"
       /\ ~IsNone(b.current_position) /\ ~IsNone(b.entry_timestamp)

\* the bot when the first call of site raises in a cycle started from b, as a sequence:
\* empty when the cycle does not make that call. Up to its first call of
\* execute_twap_order a cycle assigns what it assigns when that call returns False.
BotAtRaise(site, b, c, patched, store) ==
    IF site = "fetch_market_data"
    THEN IF CallsFetch(b, c) THEN <<b>> ELSE <<>>
    ELSE LET r == RunCycleResult(b, c, patched, store, FALSE, FALSE)
         IN IF patched /\ r.bot.orders # <<>> /\ r.bot.orders[1].kind = "TWAP"
            THEN <<[r.bot EXCEPT !.orders = <<>>]>>
            ELSE <<>>

\* one invocation of run_cycle in which the first call of site raises
RunCycleRaising(delay, store, site) ==
    /\ ncycles < MaxCycles
    /\ \E at \in { BotAtRaise(site, [current_state |-> current_state,
                                      current_position |-> current_position,
                                      entry_timestamp |-> entry_timestamp,
                                      clock |-> clock + delay, orders |-> <<>>],
                                cfg, twap_patched, store) } :
          /\ at # <<>>
          /\ current_state' = at[1].current_state
          /\ current_position' = at[1].current_position
          /\ entry_timestamp' = at[1].entry_timestamp
          /\ clock' = at[1].clock
          /\ last' = [pre_state |-> current_state, pre_position |-> current_position,
                      pre_timestamp |-> entry_timestamp, current_time |-> clock + delay,
                      rule |-> "NONE", fetched |-> <<>>, scored |-> <<>>,
                      searches |-> <<>>, orders |-> <<>>, raised |-> TRUE]
    /\ ncycles' = ncycles + 1
    /\ UNCHANGED <<cfg, twap_patched, twap, sig, net_executed>>

NextFaults ==
    \/ Next
    \/ \E delay \in Delays, store \in Stores, site \in RaiseSites :
          RunCycleRaising(delay, store, site)

SpecFaults == Init /\ [][NextFaults]_vars

(***************************************************************************)
(* execute_twap_order, statement by statement.                             *)
(*                                                                         *)
(* log holds, in order, the leg actions the function announces and the     *)
(* time.sleep calls it makes; placed holds the api_client.place_order      *)
(* calls it makes.                                                         *)
(***************************************************************************)
\* the arguments execute_twap_order is called with
TwapClients == {"accepts", "rejects"}
TwapOrderTypes == {"ENTRY", "EXIT", "HOLD"}
TwapAmounts == {1000, 5000}
TwapDurations == 0..MaxDuration
TwapIntervals == (-1)..MaxIntervals

\* the bot's variables while execute_twap_order is examined alone
BotUntouched ==
    UNCHANGED <<cfg, twap_patched, current_state, current_position, entry_timestamp,
                clock, ncycles, net_executed, last, sig>>

\* a call of execute_twap_order
InitTwap ==
    /\ cfg = TestConfig
    /\ twap_patched = FALSE
    /\ current_state = "SEARCHING"
    /\ current_position = None
    /\ entry_timestamp = None
    /\ clock = 1
    /\ ncycles = 0
    /\ net_executed = 0
    /\ last = NoCycle
    /\ sig = SigIdle
    /\ \E client \in TwapClients, asset \in AllAssets, order_type \in TwapOrderTypes,
          amount \in TwapAmounts, duration \in TwapDurations,
          intervals \in TwapIntervals :
          twap = [TwapIdle EXCEPT !.pc = "validate", !.api_client = client,
                                  !.asset_symbol = asset, !.order_type = order_type,
                                  !.total_amount_usd = amount,
                                  !.duration_minutes = duration,
                                  !.num_intervals = intervals]

\* lines 14-19: the validation, then the delay and the slice
TwapValidate ==
    /\ twap.pc = "validate"
    /\ twap' = IF ~ValidTwapParams(twap.duration_minutes, twap.num_intervals)
                THEN [twap EXCEPT !.pc = "done", !.result = Some(FALSE)]
                ELSE [twap EXCEPT
                        !.pc = "loop",
                        !.interval_delay_seconds =
                            Some(Rat(twap.duration_minutes * 60, twap.num_intervals)),
                        !.amount_per_interval_usd =
                            Some(Rat(twap.total_amount_usd, twap.num_intervals))]
    /\ BotUntouched

\* a leg action announced for an interval
Leg(market, side, amount) ==
    [kind |-> "leg", market |-> market, side |-> side, value |-> amount]

\* a call of time.sleep
Sleep(seconds) ==
    [kind |-> "sleep", market |-> "-", side |-> "-", value |-> seconds]

\* lines 28-37: the two legs of an interval, in the order the code handles them
LegsOf(order_type, amount) ==
    IF order_type = "ENTRY"
    THEN << Leg("spot", "buy", amount), Leg("perp", "sell", amount) >>
    ELSE IF order_type = "EXIT"
    THEN << Leg("spot", "sell", amount), Leg("perp", "buy", amount) >>
    ELSE << >>

\* the answers of a client to the two orders of an interval
Submissions(client, order_type) ==
    [k \in 1..2 |-> [market |-> IF k = 1 THEN "spot" ELSE "perp",
                     side |-> IF (order_type = "ENTRY") <=> (k = 1) THEN "buy" ELSE "sell",
                     accepted |-> client = "accepts"]]

\* variant of TwapInterval that places the two orders through api_client and returns
\* False when the client refuses them
TwapInterval_PlacesOrders ==
    /\ twap.pc = "loop"
    /\ twap.i < twap.num_intervals
    /\ twap' = IF ~KnownOrderType(twap.order_type)
                THEN [twap EXCEPT !.pc = "done", !.result = Some(FALSE)]
                ELSE IF twap.api_client # "accepts"
                THEN [twap EXCEPT
                        !.placed = @ \o Submissions(twap.api_client, twap.order_type),
                        !.pc = "done", !.result = Some(FALSE)]
                ELSE [twap EXCEPT
                        !.log = @ \o LegsOf(twap.order_type,
                                            Val(twap.amount_per_interval_usd)),
                        !.placed = @ \o Submissions(twap.api_client, twap.order_type),
                        !.pc = IF SleepsAfter(twap.i, twap.num_intervals)
                               THEN "sleep" ELSE "loop",
                        !.i = IF SleepsAfter(twap.i, twap.num_intervals)
                              THEN @ ELSE @ + 1]
    /\ BotUntouched

\* lines 26-41: one pass of the loop body up to the pause; the place_order calls are
\* comments in the code, so no call reaches api_client
TwapInterval ==
    /\ twap.pc = "loop"
    /\ twap.i < twap.num_intervals
    /\ twap' = IF ~KnownOrderType(twap.order_type)
                THEN [twap EXCEPT !.pc = "done", !.result = Some(FALSE)]
                ELSE [twap EXCEPT
                        !.log = @ \o LegsOf(twap.order_type,
                                            Val(twap.amount_per_interval_usd)),
                        !.pc = IF SleepsAfter(twap.i, twap.num_intervals)
                               THEN "sleep" ELSE "loop",
                        !.i = IF SleepsAfter(twap.i, twap.num_intervals)
                              THEN @ ELSE @ + 1]
    /\ BotUntouched

\* lines 42-43: time.sleep(interval_delay_seconds)
TwapSleep ==
    /\ twap.pc = "sleep"
    /\ twap' = [twap EXCEPT !.log = Append(@, Sleep(Val(twap.interval_delay_seconds))),
                            !.i = @ + 1, !.pc = "loop"]
    /\ BotUntouched

\* lines 44-45: the loop is over
TwapReturn ==
    /\ twap.pc = "loop"
    /\ twap.i >= twap.num_intervals
    /\ twap' = [twap EXCEPT !.pc = "done", !.result = Some(TRUE)]
    /\ BotUntouched

NextTwap == TwapValidate \/ TwapInterval \/ TwapSleep \/ TwapReturn

SpecTwap == InitTwap /\ [][NextTwap]_vars

(***************************************************************************)
(* The methods of SignalCalculator, called on their own. The methods keep   *)
(* no state between calls, so a behaviour is one call.                     *)
(***************************************************************************)
\* the sequences of at most n elements of S
SeqsUpTo(S, n) == UNION { [1..k -> S] : k \in 0..n }

\* reference prices, order book levels [price, volume] and notionals for _check_liquidity:
\* at price 100 the asks count up to 100.5 and the bids down to 99.5
LiquidityPrices == {0, 100}
AskLevels == { <<100, 4>>, <<100, 10>>, <<101, 10>> }
BidLevels == { <<100, 4>>, <<100, 10>>, <<99, 10>> }
LiquidityAmounts == {500, 1000}

\* order books: None or {}, one side missing, and both sides present (possibly empty)
LiquidityBooks ==
    {<<>>}
    \cup { [asks |-> a] : a \in SeqsUpTo(AskLevels, MaxLevels) }
    \cup { [bids |-> b] : b \in SeqsUpTo(BidLevels, MaxLevels) }
    \cup { [bids |-> b, asks |-> a] : b \in SeqsUpTo(BidLevels, MaxLevels),
                                       a \in SeqsUpTo(AskLevels, MaxLevels) }

\* snapshots for calculate_opportunity_score: those of the data store, the ETH entry of
\* the unit tests, a zero spot price, and books thin or missing on one side only
SignalSnaps ==
    StoreValues
    \cup { Snap(3000, 3003, 1, 100),
           Snap(0, 1001, 20, 10),
           [Snap(1000, 1001, 20, 10) EXCEPT !.spot_order_book = Book(1000, 4)],
           [Snap(1000, 1001, 20, 10) EXCEPT !.perp_order_book = Book(1001, 4)],
           [Snap(1000, 1001, 20, 10) EXCEPT !.perp_order_book = <<>>] }
SignalAmounts == {1000, 5000}

\* the bot and the TWAP helper while a SignalCalculator method is examined alone
SignalUntouched ==
    UNCHANGED <<cfg, twap_patched, current_state, current_position, entry_timestamp,
                clock, ncycles, net_executed, last, twap>>

InitSignal ==
    /\ cfg = TestConfig
    /\ twap_patched = FALSE
    /\ current_state = "SEARCHING"
    /\ current_position = None
    /\ entry_timestamp = None
    /\ clock = 1
    /\ ncycles = 0
    /\ net_executed = 0
    /\ last = NoCycle
    /\ twap = TwapIdle
    /\ sig = SigIdle

\* a call of _check_liquidity
CheckLiquidityCall(order_book, trade_amount_usd, price) ==
    /\ sig.op = "idle"
    /\ sig' = [SigIdle EXCEPT !.op = "_check_liquidity", !.order_book = order_book,
                              !.trade_amount_usd = trade_amount_usd, !.price = price,
                              !.result = CheckLiquidity(order_book, trade_amount_usd,
                                                        price)]
    /\ SignalUntouched

\* a call of calculate_opportunity_score
ScoreCall(market_data, trade_amount_usd) ==
    /\ sig.op = "idle"
    /\ sig' = [SigIdle EXCEPT !.op = "calculate_opportunity_score",
                              !.market_data = market_data,
                              !.trade_amount_usd = trade_amount_usd,
                              !.result = CalculateOpportunityScore(market_data,
                                                                   trade_amount_usd)]
    /\ SignalUntouched

\* a call of find_best_opportunity with the data store holding store
FindCall(assets, store, trade_amount_usd, current_asset_symbol) ==
    /\ sig.op = "idle"
    /\ sig' = [SigIdle EXCEPT !.op = "find_best_opportunity", !.assets = assets,
                              !.store = store,
                              !.trade_amount_usd = trade_amount_usd,
                              !.current_asset_symbol = current_asset_symbol,
                              !.result = FindBestOpportunity(assets, store,
                                                             trade_amount_usd,
                                                             current_asset_symbol)]
    /\ SignalUntouched

NextSignal ==
    \/ \E order_book \in LiquidityBooks, amount \in LiquidityAmounts,
          price \in LiquidityPrices :
          CheckLiquidityCall(order_book, amount, price)
    \/ \E snap \in SignalSnaps, amount \in SignalAmounts :
          ScoreCall(FetchMarketData([a \in {"ETH"} |-> snap], "ETH"), amount)
    \/ \E amount \in SignalAmounts : ScoreCall(None, amount)
    \/ \E assets \in SeqsUpTo(AllAssets, MaxCandidates), store \in Stores,
          current_asset_symbol \in {None} \cup { Some(a) : a \in AllAssets } :
          FindCall(assets, store, cfg.trade_amount_usd, current_asset_symbol)

SpecSignal == InitSignal /\ [][NextSignal]_vars

(***************************************************************************)
(* Vocabulary of the properties: facts about the latest cycle, read from   *)
(* what it fetched and executed.                                           *)
(***************************************************************************)
\* the latest cycle started in SEARCHING
SearchingCycle == ncycles > 0 /\ last.pre_state = "SEARCHING"

\* the latest cycle started in POSITION_OPEN with a position and a timestamp
PositionOpenCycle ==
    /\ ncycles > 0
    /\ last.pre_state = "POSITION_OPEN"
    /\ ~IsNone(last.pre_position)
    /\ ~IsNone(last.pre_timestamp)

HeldAsset == Val(last.pre_position).asset_symbol

\* the latest cycle got a snapshot for the held asset
SnapshotAvailable == last.fetched # <<>> /\ ~IsNone(last.fetched[1])

FreshSnapshot == Val(last.fetched[1])

\* ((current_perp - current_spot) - (entry_perp - entry_spot)) / entry_spot * 100
\* exceeds the stop-loss threshold (entry_spot > 0)
BasisChangeExceedsStopLoss ==
    LET pos == Val(last.pre_position)
    IN /\ pos.entry_spot_price > 0
       /\ ((FreshSnapshot.perp_price - FreshSnapshot.spot_price)
           - (pos.entry_perp_price - pos.entry_spot_price)) * 10000
          > cfg.stop_loss_basis_threshold_percentage * pos.entry_spot_price

\* now - entry_timestamp < min_holding_period_seconds at the start of the latest cycle
WithinHoldingPeriod ==
    last.current_time - Val(last.pre_timestamp) < cfg.min_holding_period_seconds

\* the flat state
Flat == current_state = "SEARCHING" /\ IsNone(current_position)

IsTwap(o, order_type, asset) ==
    /\ o.kind = "TWAP"
    /\ o.order_type = order_type
    /\ o.asset = asset
    /\ o.amount_usd = cfg.trade_amount_usd
    /\ o.duration_minutes = cfg.twap_duration_minutes
    /\ o.num_intervals = cfg.twap_num_intervals

IsImmediateExit(o, asset) ==
    /\ o.kind = "IMMEDIATE"
    /\ o.order_type = "EXIT"
    /\ o.asset = asset
    /\ o.amount_usd = cfg.trade_amount_usd

NoEntryOrder == \A i \in 1..Len(last.orders) : last.orders[i].order_type # "ENTRY"

\* a finite score x exceeds the integer threshold t
Exceeds(x, t) == x.d > 0 /\ x.n > t * x.d

\* the position an entry of the opportunity found records
EntryRecordOf(found) ==
    [asset_symbol |-> Val(found.asset),
     entry_spot_price |-> Val(found.market_data).spot_price,
     entry_perp_price |-> Val(found.market_data).perp_price,
     entry_basis_percentage |-> Val(found.basis),
     entry_score |-> found.score,
     market_data_at_entry |-> Val(found.market_data),
     current_score_of_position |-> None]

(***************************************************************************)
(* C1-C10.                                                                 *)
(***************************************************************************)
\* C1: after every cycle the state is POSITION_OPEN exactly when a position is present,
\* then the entry timestamp is set, and SEARCHING implies that no position is present.
C1_StateMatchesPosition ==
    /\ current_state = "POSITION_OPEN" <=> ~IsNone(current_position)
    /\ current_state = "POSITION_OPEN" => ~IsNone(entry_timestamp)
    /\ current_state = "SEARCHING" => IsNone(current_position)

\* a cycle in which a TWAP failed and that ended with the position open
C1_Witness ==
    /\ PositionOpenCycle
    /\ \E i \in 1..Len(last.orders) : ~last.orders[i].ok
    /\ current_state = "POSITION_OPEN"
    /\ ~IsNone(current_position)

\* C2: in a POSITION_OPEN cycle with the held asset's snapshot available and a basis
\* change above the stop-loss threshold, the cycle executes exactly one immediate exit
\* of the held asset and ends flat, whatever the time in position.
C2_StopLossOverridesHolding ==
    (PositionOpenCycle /\ SnapshotAvailable /\ BasisChangeExceedsStopLoss)
    => /\ Len(last.orders) = 1
       /\ IsImmediateExit(last.orders[1], HeldAsset)
       /\ Flat

\* a stop-loss exit inside the minimum holding period
C2_Witness ==
    /\ PositionOpenCycle /\ SnapshotAvailable /\ BasisChangeExceedsStopLoss
    /\ WithinHoldingPeriod
    /\ Flat

\* a rotation whose TWAP EXIT succeeded and whose TWAP ENTRY failed
RotationExitOkEntryFailed ==
    /\ PositionOpenCycle
    /\ Len(last.orders) = 2
    /\ IsTwap(last.orders[1], "EXIT", HeldAsset) /\ last.orders[1].ok
    /\ last.orders[2].kind = "TWAP" /\ last.orders[2].order_type = "ENTRY"
    /\ ~last.orders[2].ok

\* C3: after a rotation whose exit succeeded and whose entry failed the controller is
\* flat: no position, state SEARCHING.
C3_FlatAfterFailedRotationEntry == RotationExitOkEntryFailed => Flat

\* C4: the successful ENTRY executions minus the successful exits never exceed 1.
C4_SingleSlot == net_executed <= 1

\* a rotation that entered the alternative after exiting the held asset
C4_Witness ==
    /\ PositionOpenCycle
    /\ Len(last.orders) = 2
    /\ last.orders[1].order_type = "EXIT" /\ last.orders[1].ok
    /\ last.orders[2].order_type = "ENTRY" /\ last.orders[2].ok
    /\ net_executed = 1

\* the search of the latest SEARCHING cycle found an asset scoring above the threshold
FoundAboveEntryThreshold ==
    /\ SearchingCycle
    /\ Len(last.searches) = 1
    /\ ~IsNone(last.searches[1].asset)
    /\ Exceeds(last.searches[1].score, cfg.entry_threshold)

\* C5: in a SEARCHING cycle whose best opportunity scores above entry_threshold exactly
\* one ENTRY TWAP is executed for it with the configured notional, duration and
\* intervals; if it succeeds the cycle ends in POSITION_OPEN with a position recording
\* the asset, the snapshot's prices, the score and the basis, and the entry timestamp
\* is the time of the entry.
C5_EntryOnSuccess ==
    FoundAboveEntryThreshold
    => /\ Len(last.orders) = 1
       /\ IsTwap(last.orders[1], "ENTRY", Val(last.searches[1].asset))
       /\ last.orders[1].ok
          => /\ current_state = "POSITION_OPEN"
             /\ current_position = Some(EntryRecordOf(last.searches[1]))
             /\ entry_timestamp = Some(clock)
             /\ clock >= last.current_time

C5_Witness ==
    /\ FoundAboveEntryThreshold
    /\ last.orders[1].ok
    /\ current_state = "POSITION_OPEN"

\* the ENTRY TWAP of the latest SEARCHING cycle failed
EntryFailedWhileSearching ==
    /\ SearchingCycle
    /\ Len(last.orders) = 1
    /\ last.orders[1].kind = "TWAP" /\ last.orders[1].order_type = "ENTRY"
    /\ ~last.orders[1].ok

\* C6: a SEARCHING cycle whose ENTRY TWAP fails ends in SEARCHING with no position and
\* the entry timestamp unchanged.
C6_EntryFailureStaysFlat ==
    EntryFailedWhileSearching
    => Flat /\ entry_timestamp = last.pre_timestamp

\* an entry refused by a replaced execute_twap_order
C6_Witness == EntryFailedWhileSearching /\ twap_patched /\ Flat

\* C7: a search that returns no asset causes no ENTRY and no rotation, and a best score
\* equal to or below entry_threshold causes no entry.
C7_SentinelNeverActedOn ==
    /\ (ncycles > 0 /\ last.searches # <<>> /\ IsNone(last.searches[1].asset))
       => NoEntryOrder /\ last.rule # "ROTATION"
    /\ (SearchingCycle /\ last.searches # <<>>
        /\ ~Exceeds(last.searches[1].score, cfg.entry_threshold))
       => last.orders = <<>> /\ Flat

\* no alternative found by a controller whose rotation threshold is negative
C7_Witness ==
    /\ PositionOpenCycle
    /\ cfg.rotation_threshold < 0
    /\ last.searches # <<>> /\ IsNone(last.searches[1].asset)
    /\ last.searches[1].score = NegInf

\* C8: in a POSITION_OPEN cycle with no snapshot for the held asset the controller
\* executes one immediate exit of it at full notional, no TWAP order, and ends flat with
\* no entry timestamp.
C8_DataLossImmediateExit ==
    (PositionOpenCycle /\ last.fetched = <<None>>)
    => /\ Len(last.orders) = 1
       /\ IsImmediateExit(last.orders[1], HeldAsset)
       /\ Flat
       /\ IsNone(entry_timestamp)

\* data loss inside the minimum holding period
C8_Witness ==
    /\ PositionOpenCycle /\ last.fetched = <<None>>
    /\ WithinHoldingPeriod
    /\ Flat

\* C9: in a POSITION_OPEN cycle inside the minimum holding period, with a snapshot and
\* no stop-loss, no order is executed, no search is made and the state, the position and
\* the entry timestamp are unchanged.
C9_HoldingPeriodGuard ==
    (PositionOpenCycle /\ SnapshotAvailable /\ ~BasisChangeExceedsStopLoss
     /\ WithinHoldingPeriod)
    => /\ last.orders = <<>>
       /\ last.searches = <<>>
       /\ current_state = last.pre_state
       /\ current_position = last.pre_position
       /\ entry_timestamp = last.pre_timestamp

\* held inside the holding period although the held asset's score is below the decay
\* threshold
C9_Witness ==
    /\ PositionOpenCycle /\ SnapshotAvailable /\ ~BasisChangeExceedsStopLoss
    /\ WithinHoldingPeriod
    /\ (FreshSnapshot.perp_price - FreshSnapshot.spot_price) * 10000
       + (FreshSnapshot.next_funding_rate_hourly - ROUND_TRIP_FEES_PERCENT)
         * FreshSnapshot.spot_price
       < cfg.position_decay_threshold * FreshSnapshot.spot_price
    /\ current_state = "POSITION_OPEN"

\* the latest cycle was past the holding period, recomputed a score for the held asset
\* and found an alternative scoring above that score plus the rotation threshold
AlternativeClearsRotation ==
    /\ PositionOpenCycle /\ SnapshotAvailable /\ ~BasisChangeExceedsStopLoss
    /\ ~WithinHoldingPeriod
    /\ Len(last.scored) = 1 /\ ~IsNone(last.scored[1])
    /\ Len(last.searches) = 1 /\ ~IsNone(last.searches[1].asset)
    /\ LET cur == Val(last.scored[1])
           alt == last.searches[1].score
       IN alt.n * cur.d > (cur.n + cfg.rotation_threshold * cur.d) * alt.d

\* C10: when the best alternative scores above current_score + rotation_threshold the
\* cycle executes a TWAP EXIT of the held asset and then, the exit having succeeded, a
\* TWAP ENTRY of the alternative; when both succeed it ends in POSITION_OPEN with the
\* position replaced by the alternative's entry record and a fresh entry timestamp.
C10_SuccessfulRotation ==
    AlternativeClearsRotation
    => /\ Len(last.orders) >= 1
       /\ IsTwap(last.orders[1], "EXIT", HeldAsset)
       /\ last.orders[1].ok
          => /\ Len(last.orders) = 2
             /\ IsTwap(last.orders[2], "ENTRY", Val(last.searches[1].asset))
             /\ last.orders[2].ok
                => /\ current_state = "POSITION_OPEN"
                   /\ current_position = Some(EntryRecordOf(last.searches[1]))
                   /\ entry_timestamp = Some(clock)
                   /\ clock >= last.current_time

C10_Witness ==
    /\ AlternativeClearsRotation
    /\ Len(last.orders) = 2 /\ last.orders[1].ok /\ last.orders[2].ok
    /\ Val(current_position).asset_symbol # HeldAsset
    /\ Val(entry_timestamp) > Val(last.pre_timestamp)

(***************************************************************************)
(* C11-C20.                                                                *)
(***************************************************************************)
\* the fields of a position record written at entry
EntryFieldsOf(p) ==
    [asset_symbol |-> p.asset_symbol,
     entry_spot_price |-> p.entry_spot_price,
     entry_perp_price |-> p.entry_perp_price,
     entry_basis_percentage |-> p.entry_basis_percentage,
     entry_score |-> p.entry_score,
     market_data_at_entry |-> p.market_data_at_entry]

\* the latest cycle attempted a rotation whose TWAP EXIT of the held asset failed
RotationExitFailed ==
    /\ AlternativeClearsRotation
    /\ Len(last.orders) >= 1
    /\ IsTwap(last.orders[1], "EXIT", HeldAsset)
    /\ ~last.orders[1].ok

\* C11: when the TWAP EXIT of the held asset fails during a rotation, the cycle executes
\* no ENTRY for the alternative and ends in POSITION_OPEN holding the original position
\* with its original entry fields and its original entry timestamp.
C11_RotationAbort ==
    RotationExitFailed
    => /\ Len(last.orders) = 1
       /\ NoEntryOrder
       /\ current_state = "POSITION_OPEN"
       /\ ~IsNone(current_position)
       /\ EntryFieldsOf(Val(current_position)) = EntryFieldsOf(Val(last.pre_position))
       /\ entry_timestamp = last.pre_timestamp

C11_Witness ==
    /\ RotationExitFailed
    /\ Val(current_position).asset_symbol = HeldAsset
    /\ Val(last.searches[1].asset) # HeldAsset

\* the latest cycle, past the holding period and without stop-loss, recomputed the score
\* of the held asset and found it absent
HeldScoreAbsent ==
    /\ PositionOpenCycle /\ SnapshotAvailable /\ ~BasisChangeExceedsStopLoss
    /\ ~WithinHoldingPeriod
    /\ Len(last.scored) = 1 /\ IsNone(last.scored[1])

\* C12: when the recomputed score of the held asset is absent, the cycle executes a TWAP
\* EXIT of the held asset without searching for an alternative, and when that exit
\* succeeds it ends in SEARCHING with no position.
C12_LiquidityExit ==
    HeldScoreAbsent
    => /\ last.searches = <<>>
       /\ Len(last.orders) = 1
       /\ IsTwap(last.orders[1], "EXIT", HeldAsset)
       /\ last.orders[1].ok => Flat /\ IsNone(entry_timestamp)

C12_Witness ==
    /\ HeldScoreAbsent
    /\ Len(last.orders) = 1 /\ last.orders[1].ok
    /\ Flat

\* a finite score x is below the integer threshold t
Below(x, t) == x.d > 0 /\ x.n < t * x.d

\* the latest cycle, past the holding period and without stop-loss, scored the held asset
\* below the decay threshold while no alternative cleared the rotation threshold
DecayedWithoutAlternative ==
    /\ PositionOpenCycle /\ SnapshotAvailable /\ ~BasisChangeExceedsStopLoss
    /\ ~WithinHoldingPeriod
    /\ Len(last.scored) = 1 /\ ~IsNone(last.scored[1])
    /\ Len(last.searches) = 1
    /\ ~AlternativeClearsRotation
    /\ Below(Val(last.scored[1]), cfg.position_decay_threshold)

\* C13: when the score of the held asset is below position_decay_threshold and no
\* alternative clears the rotation threshold, the cycle executes exactly one TWAP EXIT of
\* the held asset with the configured notional, duration and intervals, and when that
\* exit succeeds it ends in SEARCHING with no position.
C13_DecayExit ==
    DecayedWithoutAlternative
    => /\ Len(last.orders) = 1
       /\ IsTwap(last.orders[1], "EXIT", HeldAsset)
       /\ last.orders[1].ok => Flat /\ IsNone(entry_timestamp)

C13_Witness ==
    /\ DecayedWithoutAlternative
    /\ Len(last.orders) = 1 /\ last.orders[1].ok
    /\ Flat

\* the first rule, in the order data unavailable, stop-loss, holding period, liquidity
\* exit, rotation, decay exit, hold, whose condition held in the latest cycle
FirstMatchingRule ==
    IF ~SnapshotAvailable THEN "DATA_UNAVAILABLE"
    ELSE IF BasisChangeExceedsStopLoss THEN "STOP_LOSS"
    ELSE IF WithinHoldingPeriod THEN "MIN_HOLDING"
    ELSE IF Len(last.scored) = 1 /\ IsNone(last.scored[1]) THEN "LIQUIDITY"
    ELSE IF AlternativeClearsRotation THEN "ROTATION"
    ELSE IF Len(last.scored) = 1
            /\ Below(Val(last.scored[1]), cfg.position_decay_threshold) THEN "DECAY"
    ELSE "HOLD"

\* the orders of the latest cycle are those of the one rule named
OrdersOfRule(rule) ==
    IF rule \in {"DATA_UNAVAILABLE", "STOP_LOSS"}
    THEN Len(last.orders) = 1 /\ IsImmediateExit(last.orders[1], HeldAsset)
    ELSE IF rule \in {"MIN_HOLDING", "HOLD"}
    THEN last.orders = <<>>
    ELSE IF rule \in {"LIQUIDITY", "DECAY"}
    THEN Len(last.orders) = 1 /\ IsTwap(last.orders[1], "EXIT", HeldAsset)
    ELSE /\ Len(last.orders) \in {1, 2}
         /\ IsTwap(last.orders[1], "EXIT", HeldAsset)
         /\ Len(last.orders) = 2
            <=> last.orders[1].ok
         /\ Len(last.orders) = 2
            => IsTwap(last.orders[2], "ENTRY", Val(last.searches[1].asset))

\* the latest cycle met the rotation condition and the decay condition at once
RotationAndDecay ==
    /\ AlternativeClearsRotation
    /\ Below(Val(last.scored[1]), cfg.position_decay_threshold)

\* C14: a POSITION_OPEN cycle applies exactly the first rule whose condition holds, in the
\* order data unavailable, stop-loss, holding period, liquidity exit, rotation, decay
\* exit, hold; when the rotation and the decay conditions both hold the rotation is
\* attempted and no separate decay exit follows, even when the rotation fails.
C14_FirstMatchWins ==
    PositionOpenCycle
    => /\ last.rule = FirstMatchingRule
       /\ OrdersOfRule(FirstMatchingRule)
       /\ RotationAndDecay /\ ~last.orders[1].ok
          => Len(last.orders) = 1 /\ current_state = "POSITION_OPEN"

C14_Witness ==
    /\ RotationAndDecay
    /\ Len(last.orders) = 1 /\ ~last.orders[1].ok
    /\ current_state = "POSITION_OPEN"

\* C15: when a call made during run_cycle, a snapshot fetch or an order submission,
\* raises, run_cycle still returns normally and leaves the controller in a consistent
\* state.
C15_NoExceptionEscapes ==
    ncycles > 0
    => /\ ~last.raised
       /\ current_state \in {"SEARCHING", "POSITION_OPEN"}
       /\ current_state = "POSITION_OPEN"
          <=> (~IsNone(current_position) /\ ~IsNone(entry_timestamp))

\* execute_twap_order has returned
TwapDone == twap.pc = "done"

\* the leg actions and the pauses of the call so far
TwapLegs == SelectSeq(twap.log, LAMBDA e : e.kind = "leg")
TwapPauses == SelectSeq(twap.log, LAMBDA e : e.kind = "sleep")

\* the rational x equals n / d (d > 0)
EqualsQuotient(x, n, d) == x.d > 0 /\ x.n * d = n * x.d

\* C16: called with num_intervals <= 0 or duration_minutes <= 0, execute_twap_order
\* executes no slice and makes no pause, and it returns false, whatever the intent.
C16_InvalidParamsRejected ==
    (twap.pc # "idle" /\ (twap.num_intervals <= 0 \/ twap.duration_minutes <= 0))
    => /\ twap.log = <<>>
       /\ twap.placed = <<>>
       /\ twap.pc \in {"validate", "done"}
       /\ TwapDone => twap.result = Some(FALSE)

C16_Witness ==
    /\ TwapDone
    /\ twap.order_type = "ENTRY"
    /\ twap.num_intervals > 0 /\ twap.duration_minutes <= 0
    /\ twap.result = Some(FALSE)

\* some submission of the call was refused
SomeSubmissionFailed == \E k \in 1..Len(twap.placed) : ~twap.placed[k].accepted

\* both legs of every one of the num_intervals slices were submitted and accepted
EverySliceSubmitted ==
    /\ Len(twap.placed) = 2 * twap.num_intervals
    /\ ~SomeSubmissionFailed

\* C17: when the submission of a slice fails, execute_twap_order submits no later slice
\* and returns false; it returns true only when the submission of every slice succeeded.
C17_FailedSliceAborts ==
    /\ \A k \in 1..Len(twap.placed) :
          ~twap.placed[k].accepted => k >= Len(twap.placed) - 1
    /\ (TwapDone /\ SomeSubmissionFailed) => twap.result = Some(FALSE)
    /\ (TwapDone /\ twap.result = Some(TRUE)) => EverySliceSubmitted

\* the call has valid parameters and a known intent
ValidTwapCall ==
    /\ twap.pc # "idle"
    /\ twap.num_intervals > 0 /\ twap.duration_minutes > 0
    /\ twap.order_type \in {"ENTRY", "EXIT"}

\* C18: with num_intervals > 0, duration_minutes > 0 and intent ENTRY or EXIT,
\* execute_twap_order terminates after exactly num_intervals slices of
\* total_amount_usd / num_intervals each, with exactly num_intervals - 1 pauses of
\* duration_minutes * 60 / num_intervals seconds, one after each slice but the last.
C18_TwapSlicing ==
    ValidTwapCall
    => /\ \A k \in 1..Len(twap.log) :
             /\ twap.log[k].kind = "sleep" <=> k % 3 = 0
             /\ twap.log[k].kind = "leg"
                => EqualsQuotient(twap.log[k].value, twap.total_amount_usd,
                                  twap.num_intervals)
             /\ twap.log[k].kind = "sleep"
                => EqualsQuotient(twap.log[k].value, twap.duration_minutes * 60,
                                  twap.num_intervals)
       /\ Len(twap.log) <= 3 * twap.num_intervals - 1
       /\ TwapDone
          => /\ twap.result = Some(TRUE)
             /\ Len(TwapLegs) = 2 * twap.num_intervals
             /\ Len(TwapPauses) = twap.num_intervals - 1
             /\ twap.log[Len(twap.log)].kind = "leg"

\* 1 minute in 2 intervals: 2 slices of half the notional and one pause of 30 seconds
C18_Witness ==
    /\ ValidTwapCall /\ TwapDone
    /\ twap.duration_minutes = 1 /\ twap.num_intervals = 2
    /\ twap.total_amount_usd = 5000
    /\ Len(twap.log) = 5
    /\ EqualsQuotient(twap.log[1].value, 2500, 1)
    /\ EqualsQuotient(twap.log[4].value, 2500, 1)
    /\ twap.log[3].kind = "sleep" /\ EqualsQuotient(twap.log[3].value, 30, 1)

\* the order the k-th leg of a call of the given intent is
ExpectedLeg(order_type, k) ==
    [market |-> IF k % 2 = 1 THEN "spot" ELSE "perp",
     side |-> IF (order_type = "ENTRY") <=> (k % 2 = 1) THEN "buy" ELSE "sell"]

\* C19: for every slice of an ENTRY the scheduler places through the execution client a
\* buy on the spot leg and then a sell on the perp leg, and for every slice of an EXIT a
\* sell on the spot leg and then a buy on the perp leg.
C19_LegsPlacedThroughClient ==
    ValidTwapCall
    => /\ Len(twap.placed) = Len(TwapLegs)
       /\ \A k \in 1..Len(twap.placed) :
             /\ twap.placed[k].market = ExpectedLeg(twap.order_type, k).market
             /\ twap.placed[k].side = ExpectedLeg(twap.order_type, k).side

\* C20: called with valid num_intervals and duration_minutes but an intent other than
\* ENTRY or EXIT, execute_twap_order executes no slice and makes no pause, and it
\* returns false.
C20_UnknownIntentRejected ==
    (/\ twap.pc # "idle"
     /\ twap.num_intervals > 0 /\ twap.duration_minutes > 0
     /\ twap.order_type \notin {"ENTRY", "EXIT"})
    => /\ twap.log = <<>>
       /\ twap.placed = <<>>
       /\ twap.pc # "sleep"
       /\ TwapDone => twap.result = Some(FALSE)

C20_Witness ==
    /\ TwapDone
    /\ twap.num_intervals > 1 /\ twap.duration_minutes > 0
    /\ twap.order_type = "HOLD"
    /\ twap.result = Some(FALSE)

(***************************************************************************)
(* C21-C30.                                                                *)
(***************************************************************************)
RECURSIVE SumVolumes(_, _)
\* the sum of the volumes of the levels with index in S
SumVolumes(levels, S) ==
    IF S = {} THEN 0
    ELSE LET k == CHOOSE k \in S : TRUE
         IN levels[k][2] + SumVolumes(levels, S \ {k})

\* the latest call is a call of _check_liquidity
LiquidityCalled == sig.op = "_check_liquidity"

\* the summed ask volume at prices <= price * (1 + 0.005)
AskVolumeWithin ==
    SumVolumes(sig.order_book.asks,
               { k \in 1..Len(sig.order_book.asks) :
                   sig.order_book.asks[k][1] * 1000 <= sig.price * 1005 })

\* the summed bid volume at prices >= price * (1 - 0.005)
BidVolumeWithin ==
    SumVolumes(sig.order_book.bids,
               { k \in 1..Len(sig.order_book.bids) :
                   sig.order_book.bids[k][1] * 1000 >= sig.price * 995 })

\* the book of the latest call has a bids side and an asks side, both non-empty
BothSidesPresent ==
    /\ DOMAIN sig.order_book = {"bids", "asks"}
    /\ sig.order_book.bids # <<>>
    /\ sig.order_book.asks # <<>>

\* C21: for a non-empty order book and a price other than 0, _check_liquidity returns
\* true exactly when the summed ask volume within the tolerance above the price and the
\* summed bid volume within the tolerance below it are both at least
\* trade_amount_usd / price.
C21_LiquidityGating ==
    (LiquidityCalled /\ BothSidesPresent /\ sig.price > 0)
    => (sig.result <=> /\ AskVolumeWithin * sig.price >= sig.trade_amount_usd
                       /\ BidVolumeWithin * sig.price >= sig.trade_amount_usd)

C21_Witness ==
    /\ LiquidityCalled /\ BothSidesPresent /\ sig.price > 0
    /\ Len(sig.order_book.asks) = 2
    /\ AskVolumeWithin * sig.price >= sig.trade_amount_usd
    /\ BidVolumeWithin * sig.price < sig.trade_amount_usd
    /\ sig.result = FALSE

\* C22: _check_liquidity returns false whenever the order book is missing or empty, its
\* bids side or its asks side is missing or empty, or the reference price is 0, whatever
\* the notional.
C22_LiquidityFailsClosed ==
    (/\ LiquidityCalled
     /\ \/ DOMAIN sig.order_book = {}
        \/ "bids" \notin DOMAIN sig.order_book
        \/ "asks" \notin DOMAIN sig.order_book
        \/ sig.order_book.bids = <<>>
        \/ sig.order_book.asks = <<>>
        \/ sig.price = 0)
    => sig.result = FALSE

C22_Witness ==
    /\ LiquidityCalled
    /\ DOMAIN sig.order_book = {"asks"}
    /\ sig.price > 0
    /\ SumVolumes(sig.order_book.asks, 1..Len(sig.order_book.asks)) * sig.price
       >= sig.trade_amount_usd
    /\ sig.result = FALSE

\* the latest call is a call of calculate_opportunity_score with a snapshot
ScoreCalled == sig.op = "calculate_opportunity_score" /\ ~IsNone(sig.market_data)

\* the liquidity checks of the snapshot of the latest call
SpotLiquidityOk ==
    CheckLiquidity(Val(sig.market_data).spot_order_book, sig.trade_amount_usd,
                   Val(sig.market_data).spot_price)
PerpLiquidityOk ==
    CheckLiquidity(Val(sig.market_data).perp_order_book, sig.trade_amount_usd,
                   Val(sig.market_data).perp_price)

\* C23: calculate_opportunity_score returns (absent, absent) whenever the liquidity check
\* fails on the spot book at the spot price or on the perp book at the perp price, and
\* it never returns a score without a basis or a basis without a score.
C23_ScoreAbsencePropagation ==
    /\ (ScoreCalled /\ (~SpotLiquidityOk \/ ~PerpLiquidityOk))
       => sig.result = [score |-> None, basis |-> None]
    /\ sig.op = "calculate_opportunity_score"
       => (IsNone(sig.result.score) <=> IsNone(sig.result.basis))

C23_Witness ==
    /\ ScoreCalled
    /\ SpotLiquidityOk /\ ~PerpLiquidityOk
    /\ sig.result = [score |-> None, basis |-> None]

\* C24: calculate_opportunity_score applied to a snapshot with spot_price == 0 returns
\* (0.0, 0.0).
C24_ZeroSpotFallback ==
    (ScoreCalled /\ Val(sig.market_data).spot_price = 0)
    => /\ ~IsNone(sig.result.score) /\ EqualsQuotient(Val(sig.result.score), 0, 1)
       /\ ~IsNone(sig.result.basis) /\ EqualsQuotient(Val(sig.result.basis), 0, 1)

\* C25: when both liquidity checks pass and spot_price # 0, the basis returned is
\* (perp_price - spot_price) / spot_price * 100 and the score returned is
\* funding_rate_hourly + basis - 0.2; in hundredths of a percent, spot 3000, perp 3003
\* and funding 0.01 give basis 10 and score -9.
C25_ScoreFormula ==
    (/\ ScoreCalled /\ SpotLiquidityOk /\ PerpLiquidityOk
     /\ Val(sig.market_data).spot_price # 0)
    => LET md == Val(sig.market_data)
       IN /\ ~IsNone(sig.result.basis) /\ ~IsNone(sig.result.score)
          /\ EqualsQuotient(Val(sig.result.basis),
                            (md.perp_price - md.spot_price) * 100 * 100, md.spot_price)
          /\ EqualsQuotient(Val(sig.result.score),
                            (md.perp_price - md.spot_price) * 100 * 100
                            + (md.next_funding_rate_hourly - 20) * md.spot_price,
                            md.spot_price)

C25_Witness ==
    /\ ScoreCalled
    /\ Val(sig.market_data).spot_price = 3000
    /\ Val(sig.market_data).perp_price = 3003
    /\ Val(sig.market_data).next_funding_rate_hourly = 1
    /\ EqualsQuotient(Val(sig.result.basis), 10, 1)
    /\ EqualsQuotient(Val(sig.result.score), -9, 1)

\* the latest call is a call of find_best_opportunity
FindCalled == sig.op = "find_best_opportunity"

\* the score and basis of the k-th candidate of the latest call
CandidateScore(k) ==
    CalculateOpportunityScore(FetchMarketData(sig.store, sig.assets[k]),
                              sig.trade_amount_usd)

\* the k-th candidate is not excluded, has a snapshot and has a score
Usable(k) ==
    /\ Some(sig.assets[k]) # sig.current_asset_symbol
    /\ sig.assets[k] \in DOMAIN sig.store
    /\ ~IsNone(CandidateScore(k).score)

UsableCandidates == { k \in 1..Len(sig.assets) : Usable(k) }

\* x <= y for finite rationals
AtMost(x, y) == x.n * y.d <= y.n * x.d

\* C26: called with asset X excluded, find_best_opportunity never returns X as the best
\* asset, even when X has the highest score among the candidates.
C26_ExcludedNeverReturned ==
    (FindCalled /\ ~IsNone(sig.current_asset_symbol))
    => sig.result.asset # sig.current_asset_symbol

C26_Witness ==
    /\ FindCalled /\ ~IsNone(sig.current_asset_symbol)
    /\ \E x \in 1..Len(sig.assets) :
          /\ Some(sig.assets[x]) = sig.current_asset_symbol
          /\ sig.assets[x] \in DOMAIN sig.store
          /\ ~IsNone(CandidateScore(x).score)
          /\ UsableCandidates # {}
          /\ \A k \in UsableCandidates :
                /\ AtMost(Val(CandidateScore(k).score), Val(CandidateScore(x).score))
                /\ ~AtMost(Val(CandidateScore(x).score), Val(CandidateScore(k).score))
    /\ ~IsNone(sig.result.asset)

\* C27: among the candidates that are not excluded and have a snapshot and a score,
\* find_best_opportunity returns the one with the maximum score, with its own score,
\* snapshot and basis, and among several with the maximum score the earliest in the
\* candidate list.
C27_BestSelection ==
    (FindCalled /\ UsableCandidates # {})
    => \E k \in UsableCandidates :
          /\ \A j \in UsableCandidates :
                AtMost(Val(CandidateScore(j).score), Val(CandidateScore(k).score))
          /\ \A j \in UsableCandidates :
                j < k => ~AtMost(Val(CandidateScore(k).score),
                                 Val(CandidateScore(j).score))
          /\ sig.result = [asset |-> Some(sig.assets[k]),
                           score |-> Val(CandidateScore(k).score),
                           market_data |-> FetchMarketData(sig.store, sig.assets[k]),
                           basis |-> CandidateScore(k).basis]

C27_Witness ==
    /\ FindCalled
    /\ sig.assets = <<"BTC", "ETH">>
    /\ UsableCandidates = {1, 2}
    /\ AtMost(Val(CandidateScore(1).score), Val(CandidateScore(2).score))
    /\ AtMost(Val(CandidateScore(2).score), Val(CandidateScore(1).score))
    /\ sig.result.asset = Some("BTC")

\* C28: when the candidate list is empty, or every candidate is excluded, has no
\* snapshot or has no score, find_best_opportunity returns no asset, minus infinity, no
\* snapshot and no basis.
C28_NoUsableCandidate ==
    (FindCalled /\ UsableCandidates = {})
    => /\ IsNone(sig.result.asset)
       /\ sig.result.score.d = 0 /\ sig.result.score.n < 0
       /\ IsNone(sig.result.market_data)
       /\ IsNone(sig.result.basis)

C28_Witness ==
    /\ FindCalled /\ UsableCandidates = {}
    /\ Len(sig.assets) = 3
    /\ \E k \in 1..3 : Some(sig.assets[k]) = sig.current_asset_symbol
    /\ \E k \in 1..3 : sig.assets[k] \notin DOMAIN sig.store
    /\ IsNone(sig.result.asset)

\* the latest cycle executed an immediate exit of the held asset and nothing else
ImmediateExitExecuted ==
    Len(last.orders) = 1 /\ IsImmediateExit(last.orders[1], HeldAsset)

\* the change of the basis since entry, times entry_spot_price and in hundredths of a
\* percent, in the latest cycle
BasisChangeScaled ==
    ((FreshSnapshot.perp_price - FreshSnapshot.spot_price)
     - (Val(last.pre_position).entry_perp_price
        - Val(last.pre_position).entry_spot_price)) * 100 * 100

\* C29: with entry_spot_price # 0, a POSITION_OPEN cycle that got a snapshot executes the
\* stop-loss exit exactly when the change of the basis since entry, as a percentage of
\* entry_spot_price, is strictly greater than stop_loss_basis_threshold_percentage; a
\* change equal to the threshold or a narrowing basis does not fire it (entry 3000/3003,
\* current 3000/3034, threshold 1.0 fires).
C29_StopLossTrigger ==
    /\ (PositionOpenCycle /\ SnapshotAvailable
        /\ Val(last.pre_position).entry_spot_price > 0)
       => /\ ImmediateExitExecuted
             <=> BasisChangeScaled > cfg.stop_loss_basis_threshold_percentage
                                     * Val(last.pre_position).entry_spot_price
          /\ ImmediateExitExecuted => Flat
    /\ StopLossCondition(TestConfig,
                         [entry_spot_price |-> 3000, entry_perp_price |-> 3003],
                         [spot_price |-> 3000, perp_price |-> 3034])
    /\ ~StopLossCondition(TestConfig,
                          [entry_spot_price |-> 3000, entry_perp_price |-> 3003],
                          [spot_price |-> 3000, perp_price |-> 3033])

\* a change equal to the threshold: no immediate exit
C29_Witness ==
    /\ PositionOpenCycle /\ SnapshotAvailable
    /\ Val(last.pre_position).entry_spot_price > 0
    /\ BasisChangeScaled = cfg.stop_loss_basis_threshold_percentage
                           * Val(last.pre_position).entry_spot_price
    /\ ~ImmediateExitExecuted
    /\ \A i \in 1..Len(last.orders) : last.orders[i].kind # "IMMEDIATE"

\* the TWAP EXIT issued by the liquidity rule or by the decay rule of the latest cycle
\* failed
OrderlyExitFailed ==
    /\ HeldScoreAbsent \/ DecayedWithoutAlternative
    /\ Len(last.orders) = 1
    /\ IsTwap(last.orders[1], "EXIT", HeldAsset)
    /\ ~last.orders[1].ok

\* C30: when the TWAP EXIT issued by the liquidity rule or by the decay rule fails, the
\* cycle ends in POSITION_OPEN with the position and the entry timestamp it started
\* with; of the position only the current_score observation may differ, which the decay
\* rule's cycle has refreshed.
C30_FailedOrderlyExitHolds ==
    OrderlyExitFailed
    => /\ current_state = "POSITION_OPEN"
       /\ ~IsNone(current_position)
       /\ EntryFieldsOf(Val(current_position)) = EntryFieldsOf(Val(last.pre_position))
       /\ Val(current_position).current_score_of_position
          = IF HeldScoreAbsent
            THEN Val(last.pre_position).current_score_of_position
            ELSE last.scored[1]
       /\ entry_timestamp = last.pre_timestamp

C30_Witness ==
    /\ OrderlyExitFailed
    /\ DecayedWithoutAlternative
    /\ current_state = "POSITION_OPEN"
    /\ Val(current_position).asset_symbol = HeldAsset

(***************************************************************************)
(* C31-C39.                                                                *)
(***************************************************************************)
\* the latest cycle started in POSITION_OPEN without a position or without a timestamp
StartedInconsistent ==
    /\ ncycles > 0
    /\ last.pre_state = "POSITION_OPEN"
    /\ IsNone(last.pre_position) \/ IsNone(last.pre_timestamp)

\* C31: a cycle started in POSITION_OPEN with no position or no entry timestamp executes
\* no order and ends in SEARCHING with current_position and entry_timestamp both absent.
C31_InconsistentStateReset ==
    StartedInconsistent
    => /\ last.orders = <<>>
       /\ last.fetched = <<>>
       /\ current_state = "SEARCHING"
       /\ IsNone(current_position)
       /\ IsNone(entry_timestamp)

C31_Witness ==
    /\ StartedInconsistent
    /\ ncycles = 1
    /\ ~IsNone(last.pre_position) /\ IsNone(last.pre_timestamp)
    /\ Flat /\ IsNone(entry_timestamp)

\* the latest cycle started and ended in POSITION_OPEN and executed no exit and no entry
\* successfully
PositionStayedOpen ==
    /\ PositionOpenCycle
    /\ current_state = "POSITION_OPEN" /\ ~IsNone(current_position)
    /\ \A i \in 1..Len(last.orders) : ~last.orders[i].ok

\* C32: over a cycle in which the same position stays open, its asset, entry prices,
\* entry basis, entry score and the entry timestamp do not change; only the current-score
\* observation may, to the score recomputed in that cycle.
C32_PositionFieldsStable ==
    PositionStayedOpen
    => /\ EntryFieldsOf(Val(current_position)) = EntryFieldsOf(Val(last.pre_position))
       /\ entry_timestamp = last.pre_timestamp
       /\ \/ Val(current_position).current_score_of_position
             = Val(last.pre_position).current_score_of_position
          \/ /\ Len(last.scored) = 1 /\ ~IsNone(last.scored[1])
             /\ Val(current_position).current_score_of_position = last.scored[1]

\* two cycles in a row held the position of the fixture and observed its score
C32_Witness ==
    /\ PositionStayedOpen
    /\ ncycles = 2
    /\ EntryFieldsOf(Val(current_position)) = EntryFieldsOf(FixturePosition)
    /\ entry_timestamp = Some(1)
    /\ ~IsNone(Val(last.pre_position).current_score_of_position)
    /\ Val(current_position).current_score_of_position
       # Val(last.pre_position).current_score_of_position

\* the latest cycle, past the holding period and without stop-loss, found the score of
\* the held asset present and not below the decay threshold, and no alternative above
\* current_score + rotation_threshold
NothingToDo ==
    /\ PositionOpenCycle /\ SnapshotAvailable /\ ~BasisChangeExceedsStopLoss
    /\ ~WithinHoldingPeriod
    /\ Len(last.scored) = 1 /\ ~IsNone(last.scored[1])
    /\ ~Below(Val(last.scored[1]), cfg.position_decay_threshold)
    /\ ~AlternativeClearsRotation

\* C33: when no rule of the POSITION_OPEN branch applies, the cycle executes no order
\* and stays in POSITION_OPEN with the same asset and entry timestamp.
C33_HoldOtherwise ==
    NothingToDo
    => /\ last.orders = <<>>
       /\ current_state = "POSITION_OPEN"
       /\ ~IsNone(current_position)
       /\ Val(current_position).asset_symbol = HeldAsset
       /\ entry_timestamp = last.pre_timestamp

\* a score equal to the decay threshold: hold
C33_Witness ==
    /\ NothingToDo
    /\ EqualsQuotient(Val(last.scored[1]), cfg.position_decay_threshold, 1)
    /\ last.orders = <<>>
    /\ current_state = "POSITION_OPEN"

\* C34: the controller is always in SEARCHING or POSITION_OPEN, and in every reachable
\* state a further cycle can be run, whatever the time that has passed.
C34_NoTerminalState ==
    /\ current_state \in {"SEARCHING", "POSITION_OPEN"}
    /\ ncycles < MaxCycles
       => \A delay \in Delays :
             ENABLED (\E store \in Stores : RunCycle(delay, store, TRUE, TRUE))

C34_Witness ==
    /\ ncycles > 0 /\ ncycles < MaxCycles
    /\ current_state = "POSITION_OPEN"
    /\ last.pre_state = "SEARCHING"
    /\ ENABLED Next

\* C35: after every cycle the successful ENTRY executions minus the successful exits
\* number 1 when current_position is present and 0 when it is absent.
C35_PositionMatchesTrades ==
    net_executed = IF IsNone(current_position) THEN 0 ELSE 1

\* C36: with num_intervals > 0, duration_minutes > 0 and intent ENTRY or EXIT,
\* execute_twap_order never calls the execution client and returns true, whatever the
\* client, the asset and the notional.
C36_TwapIgnoresClient ==
    ValidTwapCall
    => /\ twap.placed = <<>>
       /\ TwapDone => twap.result = Some(TRUE)

C36_Witness ==
    /\ ValidTwapCall /\ TwapDone
    /\ twap.api_client = "rejects"
    /\ twap.asset_symbol = "BTC"
    /\ twap.placed = <<>>
    /\ twap.result = Some(TRUE)

\* the latest cycle executed a TWAP EXIT
TwapExitExecuted ==
    \E i \in 1..Len(last.orders) :
       last.orders[i].kind = "TWAP" /\ last.orders[i].order_type = "EXIT"

\* C37: a TWAP EXIT is executed only in a cycle that starts at least
\* min_holding_period_seconds after the entry timestamp of the position it closes, and a
\* successful entry or rotation restarts the period at its own entry timestamp.
C37_OrderlyExitsRespectHolding ==
    /\ (ncycles > 0 /\ TwapExitExecuted)
       => /\ PositionOpenCycle
          /\ last.current_time - Val(last.pre_timestamp)
             >= cfg.min_holding_period_seconds
    /\ (ncycles > 0 /\ \E i \in 1..Len(last.orders) :
                          last.orders[i].order_type = "ENTRY" /\ last.orders[i].ok)
       => /\ ~IsNone(entry_timestamp)
          /\ Val(entry_timestamp) >= last.current_time

\* the cycle after a rotation out of the fixture's asset: within the new holding period,
\* no TWAP EXIT
C37_Witness ==
    /\ ncycles = 2
    /\ PositionOpenCycle
    /\ HeldAsset # FixturePosition.asset_symbol
    /\ Val(last.pre_timestamp) > 1
    /\ WithinHoldingPeriod
    /\ last.current_time - 1 >= cfg.min_holding_period_seconds
    /\ ~TwapExitExecuted
    /\ current_state = "POSITION_OPEN"

\* the configuration is invalid for execute_twap_order, which is not replaced
InvalidTwapSetup ==
    /\ ~twap_patched
    /\ cfg.twap_num_intervals <= 0 \/ cfg.twap_duration_minutes <= 0

\* C38: with twap_num_intervals <= 0 or twap_duration_minutes <= 0 the controller is,
\* after any number of cycles and any market data, in SEARCHING with no position, and
\* no order has succeeded and no slice has been executed.
C38_InvalidTwapNeverOpens ==
    InvalidTwapSetup
    => /\ Flat /\ IsNone(entry_timestamp)
       /\ net_executed = 0
       /\ \A i \in 1..Len(last.orders) : ~last.orders[i].ok
       /\ \A order_type \in {"ENTRY", "EXIT"} :
             ExecuteTwapOrder(order_type, cfg.trade_amount_usd,
                              cfg.twap_duration_minutes,
                              cfg.twap_num_intervals).slices = 0

C38_Witness ==
    /\ InvalidTwapSetup
    /\ cfg.twap_duration_minutes <= 0
    /\ ncycles = 2
    /\ FoundAboveEntryThreshold
    /\ Len(last.orders) = 1 /\ ~last.orders[1].ok
    /\ Flat

\* the assets of assets_to_monitor
MonitoredAssets == { cfg.assets_to_monitor[k] : k \in 1..Len(cfg.assets_to_monitor) }

\* C39: in a cycle that executes an EXIT and an ENTRY, the ENTRY names an asset other
\* than the asset of the EXIT, and an asset of assets_to_monitor.
C39_RotationChangesAsset ==
    \A i, j \in 1..Len(last.orders) :
       (last.orders[i].order_type = "EXIT" /\ last.orders[j].order_type = "ENTRY")
       => /\ last.orders[j].asset # last.orders[i].asset
          /\ last.orders[j].asset \in MonitoredAssets

C39_Witness ==
    /\ PositionOpenCycle
    /\ Len(last.orders) = 2
    /\ last.orders[1].order_type = "EXIT" /\ last.orders[1].asset = HeldAsset
    /\ last.orders[2].order_type = "ENTRY" /\ last.orders[2].ok
    /\ Val(current_position).asset_symbol = last.orders[2].asset

====
